---- MODULE Spec2Model ----
(***************************************************************************)
(* Options chain risk analysis engine of nubackend1/src/options_mcp:       *)
(* ChainAnalyzer (expiration selection, chain analysis), _compute_pcr and  *)
(* RiskEngine.  The functions are pure: every specification draws the     *)
(* arguments of one call in its initial state and its actions apply the    *)
(* function to them.                                                       *)
(***************************************************************************)
EXTENDS Integers, Sequences, FiniteSets, TLC

VARIABLES
    pc,             \* position of the call being modelled
    expirations,    \* select_expiration: tuple of expiration strings
    requested,      \* select_expiration: requested expiration or None
    min_dte,        \* select_expiration: minimum days to expiration
    today,          \* datetime.now().date(), as a day number
    selected,       \* select_expiration: the returned string
    options_df,     \* analyze_chain: the rows of one chain side
    current_price,  \* analyze_chain: reference price
    min_volume,     \* analyze_chain: liquidity threshold
    analysis,       \* analyze_chain: ChainAnalysis or None
    calls,          \* RiskEngine / _compute_pcr: calls analysis or None
    puts,           \* RiskEngine / _compute_pcr: puts analysis or None
    pcr,            \* PutCallRatio or None
    dte,            \* RiskEngine.assess: days to expiration
    warnings,       \* RiskEngine.assess: risk warnings, in order
    opportunities,  \* RiskEngine.assess: opportunities, in order
    calls_df,       \* options_risk_analysis: the rows of the calls chain
    puts_df,        \* options_risk_analysis: the rows of the puts chain
    option_type,    \* options_risk_analysis: "calls", "puts" or "both"
    hist,           \* _fetch_volatility_regime: the bars of ticker.history
    timeframe,      \* VehicleSelector.select: Timeframe
    volatility_regime,      \* VolatilityRegime
    bias,           \* VehicleSelector.select: trade bias
    expected_move_percent,  \* VehicleSelector.select: expected move
    recommendation, \* VehicleSelector.select: VehicleRecommendation or None
    request,        \* _analyze_spread_trade: SpreadTradeRequest
    buy_leg,        \* _analyze_spread_trade: contract of the long leg
    sell_leg,       \* _analyze_spread_trade: contract of the short leg
    spread_result,  \* _analyze_spread_trade: the metrics dict or None
    close_analysis, \* _analyze_spread_trade: spread_result["close_analysis"]
    ai_analysis,    \* _analyze_spread_trade: spread_result["ai_analysis"]
    llm,            \* the API key's presence and what the LLM call did
    tool,           \* the tool whose call is modelled
    market,         \* what the data provider holds for the symbol
    clock,          \* datetime.now(): seconds since midnight of today
    response,       \* what the tool returned or raised, None before
    symbols,        \* options_compare: the symbols requested
    metric,         \* options_compare: the metric to rank by
    tasks,          \* options_compare: the state of each symbol's task
    comparisons,    \* options_compare: comparisons, in order
    errors          \* options_compare: errors, in order

vars == <<pc, expirations, requested, min_dte, today, selected,
          options_df, current_price, min_volume, analysis,
          calls, puts, pcr, dte, warnings, opportunities,
          calls_df, puts_df, option_type,
          hist, timeframe, volatility_regime, bias, expected_move_percent,
          recommendation, request, buy_leg, sell_leg, spread_result,
          close_analysis, ai_analysis, llm, tool, market, clock, response,
          symbols, metric, tasks, comparisons, errors>>

selVars == <<expirations, requested, min_dte, today, selected>>
chainVars == <<options_df, current_price, min_volume, analysis>>
riskVars == <<calls, puts, pcr, dte, warnings, opportunities>>
requestVars == <<calls_df, puts_df, option_type>>

\* The variables of the tool calls other than the three above.
vehicleVars == <<hist, timeframe, volatility_regime, bias,
                 expected_move_percent, recommendation>>
spreadVars == <<request, buy_leg, sell_leg, spread_result, close_analysis,
                ai_analysis, llm>>
orchVars == <<tool, market, clock, response>>
compareVars == <<symbols, metric, tasks, comparisons, errors>>
toolVars == <<requestVars, vehicleVars, spreadVars, orchVars, compareVars>>

-----------------------------------------------------------------------------
(* Python values *)

\* Python's None.  Optional values are records, so None compares with them.
None == [none |-> TRUE]

\* An exception leaving the call, by class name.
Raised(cls) == [raised |-> cls]

RECURSIVE Gcd(_, _)
Gcd(a, b) == IF b = 0 THEN a ELSE Gcd(b, a % b)

\* A float, kept exact as the fraction a/b (b > 0) in lowest terms.
Rat(a, b) ==
    LET g == Gcd(IF a < 0 THEN -a ELSE a, b)
    IN [n |-> a \div g, d |-> b \div g]

RLt(x, y) == x.n * y.d < y.n * x.d

RGt(x, y) == RLt(y, x)

REq(x, y) == x.n * y.d = y.n * x.d

RSub(x, y) == Rat(x.n * y.d - y.n * x.d, x.d * y.d)

RAbs(x) == IF x.n < 0 THEN Rat(-x.n, x.d) ELSE x

SeqsUpTo(S, n) == UNION {[1..k -> S] : k \in 0..n}

-----------------------------------------------------------------------------
(* ChainAnalyzer.select_expiration *)

\* Longest tuple of expirations drawn.
MaxExp == 3

DEFAULT_MIN_DTE == 7

\* A string in the "%Y-%m-%d" format naming day number d.
DateStr(d) == [fmt |-> "ymd", day |-> d]

\* A non-empty string that is not in the "%Y-%m-%d" format.
BadStr == [fmt |-> "bad", day |-> 0]

\* The empty string.
EmptyStr == [fmt |-> "empty", day |-> 0]

ExpDays == {0, 1, 7, 8, 9}

ExpStrings == {DateStr(d) : d \in ExpDays} \cup {BadStr}

Requests == {None, EmptyStr} \cup ExpStrings

MinDtes == {0, 1, DEFAULT_MIN_DTE}

Todays == {0, 1}

\* datetime.strptime(s, "%Y-%m-%d") raises ValueError on any other string.
StrptimeRaises(s) == s.fmt # "ymd"

\* datetime.strptime(s, "%Y-%m-%d").date() of a string it accepts.
strptime_date(s) == s.day

\* `requested and ...`: None and "" are falsy.
Truthy(s) == s # None /\ s # EmptyStr

InTuple(s, tup) == \E i \in 1..Len(tup) : tup[i] = s

\* The scan with the fallback of the docstring ("nearest available"): the first
\* entry instead of the last.
RECURSIVE ScanExpirations_nearest(_, _, _, _)
ScanExpirations_nearest(exps, i, mdte, tdy) ==
    IF i > Len(exps)
    THEN IF Len(exps) = 0 THEN Raised("IndexError") ELSE exps[1]
    ELSE IF StrptimeRaises(exps[i])
         THEN ScanExpirations_nearest(exps, i + 1, mdte, tdy)
         ELSE IF strptime_date(exps[i]) - tdy >= mdte
              THEN exps[i]
              ELSE ScanExpirations_nearest(exps, i + 1, mdte, tdy)

\* The for loop over expirations from index i on, then the fallback.
RECURSIVE ScanExpirations(_, _, _, _)
ScanExpirations(exps, i, mdte, tdy) ==
    IF i > Len(exps)
    THEN IF Len(exps) = 0 THEN Raised("IndexError") ELSE exps[Len(exps)]
    ELSE IF StrptimeRaises(exps[i])
         THEN ScanExpirations(exps, i + 1, mdte, tdy)
         ELSE IF strptime_date(exps[i]) - tdy >= mdte
              THEN exps[i]
              ELSE ScanExpirations(exps, i + 1, mdte, tdy)

\* select_expiration applying the min_dte floor to the requested date too.
select_expiration_floored(exps, req, mdte, tdy) ==
    IF /\ Truthy(req)
       /\ InTuple(req, exps)
       /\ ~StrptimeRaises(req)
       /\ strptime_date(req) - tdy >= mdte
    THEN req
    ELSE ScanExpirations(exps, 1, mdte, tdy)

select_expiration(exps, req, mdte, tdy) ==
    IF Truthy(req) /\ InTuple(req, exps)
    THEN req
    ELSE ScanExpirations(exps, 1, mdte, tdy)

-----------------------------------------------------------------------------
(* Specification of select_expiration calls *)

IdleChain ==
    /\ options_df = <<>>
    /\ current_price = 0
    /\ min_volume = 0
    /\ analysis = None

IdleRisk ==
    /\ calls = None
    /\ puts = None
    /\ pcr = None
    /\ dte = 0
    /\ warnings = <<>>
    /\ opportunities = <<>>

IdleSel ==
    /\ expirations = <<>>
    /\ requested = None
    /\ min_dte = 0
    /\ today = 0
    /\ selected = None

IdleRequest ==
    /\ calls_df = <<>>
    /\ puts_df = <<>>
    /\ option_type = "both"

IdleVehicle ==
    /\ hist = <<>>
    /\ timeframe = "swing"
    /\ volatility_regime = "medium"
    /\ bias = "bullish"
    /\ expected_move_percent = None
    /\ recommendation = None

IdleSpread ==
    /\ request = None
    /\ buy_leg = None
    /\ sell_leg = None
    /\ spread_result = None
    /\ close_analysis = None
    /\ ai_analysis = None
    /\ llm = None

IdleOrch ==
    /\ tool = "none"
    /\ market = None
    /\ clock = 0
    /\ response = None

IdleCompare ==
    /\ symbols = <<>>
    /\ metric = "iv"
    /\ tasks = <<>>
    /\ comparisons = <<>>
    /\ errors = <<>>

IdleTools ==
    IdleRequest /\ IdleVehicle /\ IdleSpread /\ IdleOrch /\ IdleCompare

InitSel ==
    /\ pc = "call"
    /\ expirations \in SeqsUpTo(ExpStrings, MaxExp)
    /\ requested \in Requests
    /\ min_dte \in MinDtes
    /\ today \in Todays
    /\ selected = None
    /\ IdleChain
    /\ IdleRisk
    /\ IdleTools

SelectExpiration ==
    /\ pc = "call"
    /\ selected' = select_expiration(expirations, requested, min_dte, today)
    /\ pc' = "done"
    /\ UNCHANGED <<expirations, requested, min_dte, today>>
    /\ UNCHANGED chainVars
    /\ UNCHANGED riskVars
    /\ UNCHANGED toolVars

NextSel == SelectExpiration

SpecSel == InitSel /\ [][NextSel]_vars

\* Entry i of expirations is a date whose day-granularity DTE meets min_dte.
MeetsFloor(i) ==
    /\ expirations[i].fmt = "ymd"
    /\ expirations[i].day - today >= min_dte

\* C1: a requested expiration that is given and is an element of expirations
\* is returned unchanged, whatever min_dte and today are.
C1_RequestedWins ==
    (pc = "done" /\ requested # None /\ InTuple(requested, expirations))
        => selected = requested

\* A requested date below the floor was returned although a later entry
\* meets the floor.
C1_Witness ==
    /\ pc = "done"
    /\ requested \in {DateStr(d) : d \in ExpDays}
    /\ InTuple(requested, expirations)
    /\ requested.day - today < min_dte
    /\ \E i \in 1..Len(expirations) : MeetsFloor(i)
    /\ selected = requested

-----------------------------------------------------------------------------
(* ChainAnalyzer.analyze_chain *)

\* Longest chain side drawn.
MaxRows == 7

TOP_STRIKES_LIMIT == 5

RAdd(x, y) == Rat(x.n * y.d + y.n * x.d, x.d * y.d)

\* float(x) of an integer-valued cell.
Float(k) == Rat(k, 1)

\* float(iv * 100): implied volatility as a percentage.
Pct(iv) == Rat(iv.n * 100, iv.d)

\* One row of a chain: the columns analyze_chain reads.  The frames carry no
\* "delta" column, as the frames of fetch_option_chain.
Row(k, v, oi, iv) ==
    [strike |-> k, volume |-> v, openInterest |-> oi, impliedVolatility |-> iv]

RECURSIVE SumCol(_, _)
SumCol(df, col) ==
    IF df = <<>> THEN 0 ELSE Head(df)[col] + SumCol(Tail(df), col)

RECURSIVE SumIv(_)
SumIv(df) ==
    IF df = <<>>
    THEN Rat(0, 1)
    ELSE RAdd(Head(df).impliedVolatility, SumIv(Tail(df)))

\* options_df["impliedVolatility"].mean() * 100
MeanIvPct(df) ==
    LET t == SumIv(df) IN Rat(t.n * 100, t.d * Len(df))

MaxIvPct(df) ==
    Pct(CHOOSE x \in {df[i].impliedVolatility : i \in 1..Len(df)} :
            \A i \in 1..Len(df) : ~RLt(x, df[i].impliedVolatility))

MinIvPct(df) ==
    Pct(CHOOSE x \in {df[i].impliedVolatility : i \in 1..Len(df)} :
            \A i \in 1..Len(df) : ~RLt(df[i].impliedVolatility, x))

IsLiquid(row, mv) == row.volume >= mv

\* The filter with a strict comparison.
LiquidOptions_strict(df, mv) == SelectSeq(df, LAMBDA r : r.volume > mv)

\* options_df[options_df["volume"] >= min_volume]: the rows kept, in order.
LiquidOptions(df, mv) == SelectSeq(df, LAMBDA r : IsLiquid(r, mv))

Abs(x) == IF x < 0 THEN -x ELSE x

\* (liquid_options["strike"] - current_price).abs() at position i.
Distance(liquid, price, i) == Abs(liquid[i].strike - price)

\* The sort in descending order: the farthest rows come first.
ArgsortHead_farthest(liquid, price) ==
    {i \in 1..Len(liquid) :
        \A j \in 1..Len(liquid) :
            Distance(liquid, price, i) >= Distance(liquid, price, j)}

\* distance.argsort().iloc[:1]: the positions the sort may put first.
\* Series.argsort sorts with kind="quicksort", which is not stable: among
\* rows of equal distance any one may come first.
ArgsortHead(liquid, price) ==
    {i \in 1..Len(liquid) :
        \A j \in 1..Len(liquid) :
            Distance(liquid, price, i) <= Distance(liquid, price, j)}

RemoveAt(seq, i) == SubSeq(seq, 1, i - 1) \o SubSeq(seq, i + 1, Len(seq))

\* Position of the first row holding the largest value of column col.
FirstMax(df, col) ==
    CHOOSE i \in 1..Len(df) :
        /\ \A j \in 1..Len(df) : df[j][col] <= df[i][col]
        /\ \A j \in 1..(i - 1) : df[j][col] < df[i][col]

\* Position of the last row holding the largest value of column col.
LastMax(df, col) ==
    CHOOSE i \in 1..Len(df) :
        /\ \A j \in 1..Len(df) : df[j][col] <= df[i][col]
        /\ \A j \in (i + 1)..Len(df) : df[j][col] < df[i][col]

\* nlargest preferring the last of equal rows (keep="last").
RECURSIVE nlargest_keep_last(_, _, _)
nlargest_keep_last(df, n, col) ==
    IF n = 0 \/ df = <<>>
    THEN <<>>
    ELSE LET i == LastMax(df, col)
         IN <<df[i]>> \o nlargest_keep_last(RemoveAt(df, i), n - 1, col)

\* nlargest without the limit n.
RECURSIVE nlargest_unlimited(_, _, _)
nlargest_unlimited(df, n, col) ==
    IF df = <<>>
    THEN <<>>
    ELSE LET i == FirstMax(df, col)
         IN <<df[i]>> \o nlargest_unlimited(RemoveAt(df, i), n, col)

\* DataFrame.nlargest(n, col), keep="first": the n rows of largest col in
\* descending order, equal rows in their original order.
RECURSIVE nlargest(_, _, _)
nlargest(df, n, col) ==
    IF n = 0 \/ df = <<>>
    THEN <<>>
    ELSE LET i == FirstMax(df, col)
         IN <<df[i]>> \o nlargest(RemoveAt(df, i), n - 1, col)

TopVolumeStrike(row) ==
    [strike |-> Float(row.strike), volume |-> row.volume,
     iv |-> Pct(row.impliedVolatility)]

TopOIStrike(row) ==
    [strike |-> Float(row.strike), open_interest |-> row.openInterest,
     iv |-> Pct(row.impliedVolatility)]

_top_by_volume(liquid) ==
    IF liquid = <<>>
    THEN <<>>
    ELSE LET top == nlargest(liquid, TOP_STRIKES_LIMIT, "volume")
         IN [k \in 1..Len(top) |-> TopVolumeStrike(top[k])]

_top_by_oi(liquid) ==
    IF liquid = <<>>
    THEN <<>>
    ELSE LET top == nlargest(liquid, TOP_STRIKES_LIMIT, "openInterest")
         IN [k \in 1..Len(top) |-> TopOIStrike(top[k])]

\* The ChainAnalysis built from a non-empty frame; atm_pos is the position
\* argsort put first in the liquid subset (unused when that subset is empty).
ChainAnalysis(df, price, mv, atm_pos) ==
    LET liquid == LiquidOptions(df, mv)
        has_atm == liquid # <<>>
    IN [total_contracts |-> Len(df),
        liquid_contracts |-> Len(liquid),
        total_volume |-> SumCol(df, "volume"),
        total_open_interest |-> SumCol(df, "openInterest"),
        avg_implied_volatility |-> MeanIvPct(df),
        max_iv |-> MaxIvPct(df),
        min_iv |-> MinIvPct(df),
        atm_strike |-> IF has_atm THEN Float(liquid[atm_pos].strike) ELSE None,
        atm_iv |-> IF has_atm
                   THEN Pct(liquid[atm_pos].impliedVolatility)
                   ELSE None,
        atm_delta |-> None,
        top_volume_strikes |-> _top_by_volume(liquid),
        top_oi_strikes |-> _top_by_oi(liquid)]

\* A ChainAnalysis with every metric zero.
ZeroAnalysis ==
    [total_contracts |-> 0, liquid_contracts |-> 0, total_volume |-> 0,
     total_open_interest |-> 0, avg_implied_volatility |-> Rat(0, 1),
     max_iv |-> Rat(0, 1), min_iv |-> Rat(0, 1), atm_strike |-> None,
     atm_iv |-> None, atm_delta |-> None, top_volume_strikes |-> <<>>,
     top_oi_strikes |-> <<>>]

\* analyze_chain answering an empty frame with a zero-valued analysis.
analyze_chain_zero(df, price, mv, atm_pos) ==
    IF df = <<>> THEN ZeroAnalysis ELSE ChainAnalysis(df, price, mv, atm_pos)

analyze_chain(df, price, mv, atm_pos) ==
    IF df = <<>> THEN None ELSE ChainAnalysis(df, price, mv, atm_pos)

-----------------------------------------------------------------------------
(* Specification of analyze_chain calls *)

Strikes == {2, 4, 6}

Volumes == {0, 1, 2}

OpenInterests == {0, 1}

Ivs == {Rat(30, 100), Rat(45, 100)}

\* Short chains: every column of every row drawn freely.
ShortLengths == 0..2

ShortRows == {Row(k, v, oi, iv) : k \in Strikes, v \in Volumes,
                                  oi \in OpenInterests, iv \in Ivs}

ShortPrices == {3, 4, 5}

MinVolumes == {1, 2}

\* Long chains: strikes ascending by row as the provider lists them, long
\* enough for more liquid rows than TOP_STRIKES_LIMIT.
LongLengths == 3..MaxRows

\* (volume, open interest) of a long chain's row: an illiquid row of large
\* open interest, and two liquid rows ranked oppositely by the two columns.
LongCells == {<<0, 1>>, <<1, 1>>, <<2, 0>>}

\* The long chain whose rows carry the (volume, open interest) cells c.
LongChain(c) ==
    [i \in 1..Len(c) |-> Row(2 * i, c[i][1], c[i][2], Rat(30, 100))]

LongPrices == {7}

InitChain ==
    /\ pc = "call"
    /\ \/ /\ \E n \in ShortLengths : options_df \in [1..n -> ShortRows]
          /\ current_price \in ShortPrices
          /\ min_volume \in MinVolumes
       \/ /\ \E n \in LongLengths :
                \E c \in [1..n -> LongCells] : options_df = LongChain(c)
          /\ current_price \in LongPrices
          /\ min_volume = 1
    /\ analysis = None
    /\ IdleSel
    /\ IdleRisk
    /\ IdleTools

AnalyzeChain ==
    /\ pc = "call"
    /\ LET liquid == LiquidOptions(options_df, min_volume)
       IN \E atm_pos \in (IF liquid = <<>>
                          THEN {0}
                          ELSE ArgsortHead(liquid, current_price)) :
              analysis' =
                  analyze_chain(options_df, current_price, min_volume, atm_pos)
    /\ pc' = "done"
    /\ UNCHANGED <<options_df, current_price, min_volume>>
    /\ UNCHANGED selVars
    /\ UNCHANGED riskVars
    /\ UNCHANGED toolVars

NextChain == AnalyzeChain

SpecChain == InitChain /\ [][NextChain]_vars

\* Positions of the liquid rows of options_df.
LiquidIdx == {i \in 1..Len(options_df) : options_df[i].volume >= min_volume}

\* |strike - current_price| of row i of options_df.
RowDistance(i) == Abs(options_df[i].strike - current_price)

\* Liquid rows nearest to current_price.
NearestLiquid == {i \in LiquidIdx : \A j \in LiquidIdx : RowDistance(i) <= RowDistance(j)}

Returned == pc = "done" /\ analysis # None

\* C3: an empty table yields None, never a zero-valued ChainAnalysis, and every
\* non-empty table yields a ChainAnalysis.
C3_EmptyIsAbsent ==
    pc = "done" =>
        /\ Len(options_df) = 0 => analysis = None
        /\ Len(options_df) > 0 =>
              analysis # None /\ analysis.total_contracts = Len(options_df)

\* An empty table was analysed.
C3_Witness ==
    /\ pc = "done"
    /\ options_df = <<>>
    /\ min_volume = 2
    /\ current_price = 5
    /\ analysis = None

\* C4 as stated: ATM fields are set iff a liquid row exists, and atm_strike is
\* the strike of the first liquid row, in input order, among those nearest to
\* current_price.
C4_AtmFirstOfTied ==
    Returned =>
        /\ analysis.atm_strike # None <=> LiquidIdx # {}
        /\ analysis.atm_iv # None <=> LiquidIdx # {}
        /\ LiquidIdx # {} =>
              \E i \in NearestLiquid :
                  /\ \A j \in NearestLiquid : i <= j
                  /\ analysis.atm_strike = Float(options_df[i].strike)

\* C4 amended: ATM fields are set iff a liquid row exists, and atm_strike and
\* atm_iv are those of one liquid row nearest to current_price; which of
\* several equally near rows is not fixed by the input order.
C4_AtmNearestLiquid ==
    Returned =>
        /\ analysis.atm_strike # None <=> LiquidIdx # {}
        /\ analysis.atm_iv # None <=> LiquidIdx # {}
        /\ LiquidIdx # {} =>
              \E i \in NearestLiquid :
                  /\ analysis.atm_strike = Float(options_df[i].strike)
                  /\ analysis.atm_iv = Pct(options_df[i].impliedVolatility)

\* Two liquid rows tie as nearest, an illiquid row is nearer than both, and
\* the later of the two was returned.
C4_Witness ==
    /\ Returned
    /\ \E i, j \in NearestLiquid :
          /\ i < j
          /\ options_df[i].strike # options_df[j].strike
          /\ analysis.atm_strike = Float(options_df[j].strike)
    /\ \E k \in 1..Len(options_df) :
          /\ k \notin LiquidIdx
          /\ \A i \in LiquidIdx : RowDistance(k) < RowDistance(i)

Min2(a, b) == IF a <= b THEN a ELSE b

\* C5: liquid_contracts <= total_contracts, and both top lists are no longer
\* than min(TOP_STRIKES_LIMIT, liquid_contracts).
C5_Counts ==
    Returned =>
        /\ analysis.liquid_contracts <= analysis.total_contracts
        /\ Len(analysis.top_volume_strikes)
               <= Min2(TOP_STRIKES_LIMIT, analysis.liquid_contracts)
        /\ Len(analysis.top_oi_strikes)
               <= Min2(TOP_STRIKES_LIMIT, analysis.liquid_contracts)

\* More liquid rows than the limit, and the lists cut at the limit.
C5_Witness ==
    /\ Returned
    /\ analysis.liquid_contracts > TOP_STRIKES_LIMIT
    /\ Len(analysis.top_volume_strikes) = TOP_STRIKES_LIMIT
    /\ Len(analysis.top_oi_strikes) = TOP_STRIKES_LIMIT

\* Place of liquid row i when the liquid rows are ordered by descending col,
\* equal rows by input order.
Rank(i, col) ==
    1 + Cardinality({j \in LiquidIdx :
            \/ options_df[j][col] > options_df[i][col]
            \/ options_df[j][col] = options_df[i][col] /\ j < i})

\* C6: each top list holds exactly the liquid rows of the N largest metric,
\* in descending order of the metric, equal rows in input order.
C6_TopLists ==
    Returned =>
        /\ Len(analysis.top_volume_strikes)
               = Min2(TOP_STRIKES_LIMIT, Cardinality(LiquidIdx))
        /\ Len(analysis.top_oi_strikes)
               = Min2(TOP_STRIKES_LIMIT, Cardinality(LiquidIdx))
        /\ \A i \in LiquidIdx :
              Rank(i, "volume") <= TOP_STRIKES_LIMIT =>
                  LET t == analysis.top_volume_strikes[Rank(i, "volume")]
                  IN /\ t.strike = Float(options_df[i].strike)
                     /\ t.volume = options_df[i].volume
        /\ \A i \in LiquidIdx :
              Rank(i, "openInterest") <= TOP_STRIKES_LIMIT =>
                  LET t == analysis.top_oi_strikes[Rank(i, "openInterest")]
                  IN /\ t.strike = Float(options_df[i].strike)
                     /\ t.open_interest = options_df[i].openInterest

\* An illiquid row of large open interest is left out, and of two liquid rows
\* of equal volume the earlier is listed last and the later is cut.
C6_Witness ==
    /\ Returned
    /\ \E k \in 1..Len(options_df) :
          /\ k \notin LiquidIdx
          /\ \A i \in LiquidIdx :
                options_df[k].openInterest >= options_df[i].openInterest
    /\ \E i, j \in LiquidIdx :
          /\ i < j
          /\ options_df[i].volume = options_df[j].volume
          /\ Rank(i, "volume") = TOP_STRIKES_LIMIT
          /\ Rank(j, "volume") = TOP_STRIKES_LIMIT + 1
          /\ analysis.top_volume_strikes[TOP_STRIKES_LIMIT].strike
                 = Float(options_df[i].strike)

-----------------------------------------------------------------------------
(* _compute_pcr *)

\* a / b on Python ints: a float, or ZeroDivisionError.
Div(a, b) == IF b = 0 THEN Raised("ZeroDivisionError") ELSE Rat(a, b)

PutCallRatio(v, oi) == [volume |-> v, open_interest |-> oi]

\* _compute_pcr reporting 0 where the calls total is zero.
_compute_pcr_zero_default(c, p) ==
    IF c = None \/ p = None
    THEN None
    ELSE PutCallRatio(
             IF c.total_volume > 0
             THEN Div(p.total_volume, c.total_volume)
             ELSE Rat(0, 1),
             IF c.total_open_interest > 0
             THEN Div(p.total_open_interest, c.total_open_interest)
             ELSE Rat(0, 1))

_compute_pcr(c, p) ==
    IF c = None \/ p = None
    THEN None
    ELSE PutCallRatio(
             IF c.total_volume > 0
             THEN Div(p.total_volume, c.total_volume)
             ELSE None,
             IF c.total_open_interest > 0
             THEN Div(p.total_open_interest, c.total_open_interest)
             ELSE None)

-----------------------------------------------------------------------------
(* RiskEngine *)

IV_HIGH_THRESHOLD == Rat(60, 1)

IV_LOW_THRESHOLD == Rat(20, 1)

PCR_BEARISH_THRESHOLD == Rat(15, 10)

PCR_BULLISH_THRESHOLD == Rat(7, 10)

LIQUIDITY_WARNING_CONTRACTS == 5

DTE_SHORT_WARNING == 7

DTE_LONG_OPPORTUNITY == 60

OI_CONCENTRATION_WARNING == Rat(30, 100)

UNUSUAL_VOLUME_RATIO == Rat(3, 1)

IV_SKEW_SIGNIFICANT == Rat(10, 1)

\* A message, by the check that wrote it and what it reports; the text and
\* the number printed in it are not modelled.
Msg(check, about) == [check |-> check, about |-> about]

\* What one check appends: w to warnings, o to opportunities.
Out(w, o) == [w |-> w, o |-> o]

Nothing == Out(<<>>, <<>>)

\* _assess_iv taking puts as the primary side.
_assess_iv_puts_first(c, p) ==
    LET primary == IF p # None THEN p ELSE c
    IN IF primary = None
       THEN Nothing
       ELSE IF RGt(primary.avg_implied_volatility, IV_HIGH_THRESHOLD)
            THEN Out(<<Msg("iv", "high")>>, <<>>)
            ELSE IF RLt(primary.avg_implied_volatility, IV_LOW_THRESHOLD)
                 THEN Out(<<>>, <<Msg("iv", "low")>>)
                 ELSE Nothing

_assess_iv(c, p) ==
    LET primary == IF c # None THEN c ELSE p
    IN IF primary = None
       THEN Nothing
       ELSE IF RGt(primary.avg_implied_volatility, IV_HIGH_THRESHOLD)
            THEN Out(<<Msg("iv", "high")>>, <<>>)
            ELSE IF RLt(primary.avg_implied_volatility, IV_LOW_THRESHOLD)
                 THEN Out(<<>>, <<Msg("iv", "low")>>)
                 ELSE Nothing

\* _assess_pcr with inclusive comparisons.
_assess_pcr_inclusive(r) ==
    IF r = None \/ r.volume = None
    THEN Nothing
    ELSE IF ~RLt(r.volume, PCR_BEARISH_THRESHOLD)
         THEN Out(<<Msg("pcr", "bearish")>>, <<>>)
         ELSE IF ~RGt(r.volume, PCR_BULLISH_THRESHOLD)
              THEN Out(<<>>, <<Msg("pcr", "bullish")>>)
              ELSE Nothing

_assess_pcr(r) ==
    IF r = None \/ r.volume = None
    THEN Nothing
    ELSE IF RGt(r.volume, PCR_BEARISH_THRESHOLD)
         THEN Out(<<Msg("pcr", "bearish")>>, <<>>)
         ELSE IF RLt(r.volume, PCR_BULLISH_THRESHOLD)
              THEN Out(<<>>, <<Msg("pcr", "bullish")>>)
              ELSE Nothing

\* _assess_liquidity warning at the threshold as well.
_assess_liquidity_inclusive(c, p) ==
    Out((IF c # None /\ c.liquid_contracts <= LIQUIDITY_WARNING_CONTRACTS
         THEN <<Msg("liquidity", "calls")>>
         ELSE <<>>)
        \o (IF p # None /\ p.liquid_contracts <= LIQUIDITY_WARNING_CONTRACTS
            THEN <<Msg("liquidity", "puts")>>
            ELSE <<>>),
        <<>>)

_assess_liquidity(c, p) ==
    Out((IF c # None /\ c.liquid_contracts < LIQUIDITY_WARNING_CONTRACTS
         THEN <<Msg("liquidity", "calls")>>
         ELSE <<>>)
        \o (IF p # None /\ p.liquid_contracts < LIQUIDITY_WARNING_CONTRACTS
            THEN <<Msg("liquidity", "puts")>>
            ELSE <<>>),
        <<>>)

\* _assess_dte with inclusive comparisons.
_assess_dte_inclusive(days) ==
    IF days <= DTE_SHORT_WARNING
    THEN Out(<<Msg("dte", "short")>>, <<>>)
    ELSE IF days >= DTE_LONG_OPPORTUNITY
         THEN Out(<<>>, <<Msg("dte", "long")>>)
         ELSE Nothing

_assess_dte(days) ==
    IF days < DTE_SHORT_WARNING
    THEN Out(<<Msg("dte", "short")>>, <<>>)
    ELSE IF days > DTE_LONG_OPPORTUNITY
         THEN Out(<<>>, <<Msg("dte", "long")>>)
         ELSE Nothing

\* _assess_iv_skew with an inclusive comparison.
_assess_iv_skew_inclusive(c, p) ==
    IF c = None \/ p = None
    THEN Nothing
    ELSE IF c.atm_iv = None \/ p.atm_iv = None
         THEN Nothing
         ELSE LET skew == RSub(p.atm_iv, c.atm_iv)
              IN IF ~RLt(RAbs(skew), IV_SKEW_SIGNIFICANT)
                 THEN IF skew.n > 0
                      THEN Out(<<Msg("iv_skew", "put")>>, <<>>)
                      ELSE Out(<<>>, <<Msg("iv_skew", "call")>>)
                 ELSE Nothing

_assess_iv_skew(c, p) ==
    IF c = None \/ p = None
    THEN Nothing
    ELSE IF c.atm_iv = None \/ p.atm_iv = None
         THEN Nothing
         ELSE LET skew == RSub(p.atm_iv, c.atm_iv)
              IN IF RGt(RAbs(skew), IV_SKEW_SIGNIFICANT)
                 THEN IF skew.n > 0
                      THEN Out(<<Msg("iv_skew", "put")>>, <<>>)
                      ELSE Out(<<>>, <<Msg("iv_skew", "call")>>)
                 ELSE Nothing

\* One pass of the loop of _assess_oi_concentration.
OiConcentration(chain, label) ==
    IF chain = None
    THEN <<>>
    ELSE IF chain.total_open_interest = 0
         THEN <<>>
         ELSE IF chain.top_oi_strikes = <<>>
              THEN <<>>
              ELSE LET max_oi == chain.top_oi_strikes[1].open_interest
                       concentration == Div(max_oi, chain.total_open_interest)
                   IN IF RGt(concentration, OI_CONCENTRATION_WARNING)
                      THEN <<Msg("oi_concentration", label)>>
                      ELSE <<>>

_assess_oi_concentration(c, p) ==
    Out(OiConcentration(c, "calls") \o OiConcentration(p, "puts"), <<>>)

\* The pass of _assess_unusual_activity with an inclusive comparison.
UnusualActivity_inclusive(chain, label) ==
    IF chain = None
    THEN <<>>
    ELSE IF chain.total_open_interest = 0
         THEN <<>>
         ELSE LET vol_oi_ratio ==
                      Div(chain.total_volume, chain.total_open_interest)
              IN IF ~RLt(vol_oi_ratio, UNUSUAL_VOLUME_RATIO)
                 THEN <<Msg("unusual_activity", label)>>
                 ELSE <<>>

\* One pass of the loop of _assess_unusual_activity.
UnusualActivity(chain, label) ==
    IF chain = None
    THEN <<>>
    ELSE IF chain.total_open_interest = 0
         THEN <<>>
         ELSE LET vol_oi_ratio ==
                      Div(chain.total_volume, chain.total_open_interest)
              IN IF RGt(vol_oi_ratio, UNUSUAL_VOLUME_RATIO)
                 THEN <<Msg("unusual_activity", label)>>
                 ELSE <<>>

\* _assess_unusual_activity writing to its warnings argument as well.
_assess_unusual_activity_warns(c, p) ==
    Out(UnusualActivity(c, "calls") \o UnusualActivity(p, "puts"),
        UnusualActivity(c, "calls") \o UnusualActivity(p, "puts"))

_assess_unusual_activity(c, p) ==
    Out(<<>>, UnusualActivity(c, "calls") \o UnusualActivity(p, "puts"))

\* assess running no check unless both sides are present.
assess_needs_both(c, p, r, days) ==
    IF c = None \/ p = None
    THEN Nothing
    ELSE LET a1 == _assess_iv(c, p)
             a2 == _assess_pcr(r)
             a3 == _assess_liquidity(c, p)
             a4 == _assess_dte(days)
             a5 == _assess_iv_skew(c, p)
             a6 == _assess_oi_concentration(c, p)
             a7 == _assess_unusual_activity(c, p)
         IN Out(a1.w \o a2.w \o a3.w \o a4.w \o a5.w \o a6.w \o a7.w,
                a1.o \o a2.o \o a3.o \o a4.o \o a5.o \o a6.o \o a7.o)

\* RiskEngine.assess: the seven checks in order, each appending to the lists.
assess(c, p, r, days) ==
    LET a1 == _assess_iv(c, p)
        a2 == _assess_pcr(r)
        a3 == _assess_liquidity(c, p)
        a4 == _assess_dte(days)
        a5 == _assess_iv_skew(c, p)
        a6 == _assess_oi_concentration(c, p)
        a7 == _assess_unusual_activity(c, p)
    IN Out(a1.w \o a2.w \o a3.w \o a4.w \o a5.w \o a6.w \o a7.w,
           a1.o \o a2.o \o a3.o \o a4.o \o a5.o \o a6.o \o a7.o)

-----------------------------------------------------------------------------
(* Specification of _compute_pcr and RiskEngine.assess calls *)

\* The fields of a ChainAnalysis the risk checks read, as a tuple:
\* liquid_contracts, total_volume, total_open_interest, average IV,
\* ATM IV (0 for None), open interest of the first top-OI strike (0 for an
\* empty list).
Quiet == <<5, 30, 10, 20, 30, 3>>

Loud == <<4, 31, 10, 61, 41, 4>>

FieldValues ==
    <<{0, 4, 5}, {0, 30, 31}, {0, 10}, {19, 20, 60, 61}, {0, 30, 40, 41},
      {0, 3, 4}>>

\* The tuples that differ from base in at most one field.
Around(base) ==
    {base} \cup
    UNION {{[base EXCEPT ![k] = v] : v \in FieldValues[k]} :
               k \in 1..Len(FieldValues)}

\* The ChainAnalysis holding the fields of tuple t.
AnalysisOf(t) ==
    [total_contracts |-> 10,
     liquid_contracts |-> t[1],
     total_volume |-> t[2],
     total_open_interest |-> t[3],
     avg_implied_volatility |-> Rat(t[4], 1),
     max_iv |-> Rat(t[4], 1),
     min_iv |-> Rat(t[4], 1),
     atm_strike |-> IF t[5] = 0 THEN None ELSE Rat(100, 1),
     atm_iv |-> IF t[5] = 0 THEN None ELSE Rat(t[5], 1),
     atm_delta |-> None,
     top_volume_strikes |-> <<>>,
     top_oi_strikes |->
         IF t[6] = 0
         THEN <<>>
         ELSE <<[strike |-> Rat(100, 1), open_interest |-> t[6],
                 iv |-> Rat(t[4], 1)]>>]

SideInputs == {None} \cup {AnalysisOf(t) : t \in Around(Quiet) \cup Around(Loud)}

RatioValues == {None, Rat(69, 100), Rat(7, 10), Rat(3, 2), Rat(151, 100)}

PcrInputs ==
    {None} \cup {PutCallRatio(v, oi) : v \in RatioValues, oi \in {None, Rat(9, 1)}}

Dtes == {6, 7, 60, 61}

InitRisk ==
    /\ pc = "call"
    /\ calls \in SideInputs
    /\ puts \in SideInputs
    /\ pcr \in PcrInputs
    /\ dte \in Dtes
    /\ warnings = <<>>
    /\ opportunities = <<>>
    /\ IdleSel
    /\ IdleChain
    /\ IdleTools

\* pcr = _compute_pcr(calls_analysis, puts_analysis)
ComputePcr ==
    /\ pc = "call"
    /\ pcr' = _compute_pcr(calls, puts)
    /\ pc' = "pcr"
    /\ UNCHANGED <<calls, puts, dte, warnings, opportunities>>
    /\ UNCHANGED selVars
    /\ UNCHANGED chainVars
    /\ UNCHANGED toolVars

\* warnings, opportunities = assess(calls, puts, pcr, dte), with the ratio of
\* _compute_pcr or with a ratio the caller built.
Assess ==
    /\ pc \in {"call", "pcr"}
    /\ LET out == assess(calls, puts, pcr, dte)
       IN /\ warnings' = out.w
          /\ opportunities' = out.o
    /\ pc' = "done"
    /\ UNCHANGED <<calls, puts, pcr, dte>>
    /\ UNCHANGED selVars
    /\ UNCHANGED chainVars
    /\ UNCHANGED toolVars

NextRisk == ComputePcr \/ Assess

SpecRisk == InitRisk /\ [][NextRisk]_vars

\* The fraction a / b, b > 0, as the float x.
IsQuotient(x, a, b) == x # None /\ x # Raised("ZeroDivisionError") /\ x.n * b = a * x.d

\* C7: the ratio object is None when a side is absent; the volume ratio is
\* None when calls.total_volume is 0 and puts/calls otherwise, likewise for
\* open interest; nothing divides by zero and no number stands in for None.
C7_PutCallRatio ==
    pc = "pcr" =>
        /\ pcr # Raised("ZeroDivisionError")
        /\ (calls = None \/ puts = None) => pcr = None
        /\ (calls # None /\ puts # None) =>
              /\ pcr # None
              /\ IF calls.total_volume = 0
                 THEN pcr.volume = None
                 ELSE IsQuotient(pcr.volume, puts.total_volume,
                                 calls.total_volume)
              /\ IF calls.total_open_interest = 0
                 THEN pcr.open_interest = None
                 ELSE IsQuotient(pcr.open_interest, puts.total_open_interest,
                                 calls.total_open_interest)

\* Calls traded nothing while puts did: the volume ratio is None and the
\* open-interest ratio is a number.
C7_Witness ==
    /\ pc = "pcr"
    /\ calls # None
    /\ puts # None
    /\ calls.total_volume = 0
    /\ puts.total_volume > 0
    /\ calls.total_open_interest > 0
    /\ pcr.volume = None
    /\ pcr.open_interest = Rat(1, 1)

Checks ==
    {"iv", "pcr", "liquidity", "dte", "iv_skew", "oi_concentration",
     "unusual_activity"}

\* Number of messages of check k in list msgs.
Count(msgs, k) == Cardinality({i \in 1..Len(msgs) : msgs[i].check = k})

\* C8 as stated: every check writes at most one message over both lists, so
\* the lists hold at most seven messages together.
C8_OneMessagePerCheck ==
    pc = "done" =>
        /\ \A k \in Checks : Count(warnings, k) + Count(opportunities, k) <= 1
        /\ Len(warnings) + Len(opportunities) <= 7

\* C8 amended: no check writes to both lists; the IV, PCR, DTE and IV-skew
\* checks write at most one message, the liquidity, OI-concentration and
\* unusual-volume checks at most one per side (two in all, never two for one
\* side), so the lists hold at most ten messages together.
C8_OneListPerCheck ==
    pc = "done" =>
        /\ \A k \in Checks : Count(warnings, k) = 0 \/ Count(opportunities, k) = 0
        /\ \A k \in {"iv", "pcr", "dte", "iv_skew"} :
              Count(warnings, k) + Count(opportunities, k) <= 1
        /\ \A k \in {"liquidity", "oi_concentration", "unusual_activity"} :
              /\ Count(warnings, k) + Count(opportunities, k) <= 2
              /\ \A i, j \in 1..Len(warnings) :
                    (warnings[i] = warnings[j] /\ warnings[i].check = k) => i = j
              /\ \A i, j \in 1..Len(opportunities) :
                    (opportunities[i] = opportunities[j]
                        /\ opportunities[i].check = k) => i = j
        /\ Len(warnings) + Len(opportunities) <= 10

\* Every check fired, the per-side checks for both sides: ten messages.
C8_Witness ==
    /\ pc = "done"
    /\ Count(warnings, "liquidity") = 2
    /\ Count(warnings, "oi_concentration") = 2
    /\ Count(opportunities, "unusual_activity") = 2
    /\ Len(warnings) + Len(opportunities) = 10

HasMsg(msgs, k, about) == \E i \in 1..Len(msgs) : msgs[i] = Msg(k, about)

\* C9: with primary = calls if present, else puts, the high-IV warning is
\* written iff primary's average IV > 60, the low-IV opportunity iff it is
\* < 20, and nothing otherwise or when both sides are absent.
C9_IvLevel ==
    pc = "done" =>
        LET primary == IF calls # None THEN calls ELSE puts
            iv == primary.avg_implied_volatility
        IN /\ HasMsg(warnings, "iv", "high")
                <=> (primary # None /\ iv.n > 60 * iv.d)
           /\ HasMsg(opportunities, "iv", "low")
                <=> (primary # None /\ iv.n < 20 * iv.d)
           /\ Count(warnings, "iv") = (IF HasMsg(warnings, "iv", "high") THEN 1 ELSE 0)
           /\ Count(opportunities, "iv")
                = (IF HasMsg(opportunities, "iv", "low") THEN 1 ELSE 0)

\* Calls sit exactly on the high threshold while puts are above it: no IV
\* message is written.
C9_Witness ==
    /\ pc = "done"
    /\ calls # None
    /\ puts # None
    /\ calls.avg_implied_volatility = Rat(60, 1)
    /\ puts.avg_implied_volatility = Rat(61, 1)
    /\ Count(warnings, "iv") = 0
    /\ Count(opportunities, "iv") = 0

\* C10: the bearish warning is written iff the volume ratio is defined and
\* > 1.5, the bullish opportunity iff it is defined and < 0.7; the
\* open-interest ratio plays no part.
C10_PcrCheck ==
    pc = "done" =>
        LET defined == pcr # None /\ pcr.volume # None
        IN /\ HasMsg(warnings, "pcr", "bearish")
                <=> (defined /\ 10 * pcr.volume.n > 15 * pcr.volume.d)
           /\ HasMsg(opportunities, "pcr", "bullish")
                <=> (defined /\ 10 * pcr.volume.n < 7 * pcr.volume.d)
           /\ Count(warnings, "pcr")
                = (IF HasMsg(warnings, "pcr", "bearish") THEN 1 ELSE 0)
           /\ Count(opportunities, "pcr")
                = (IF HasMsg(opportunities, "pcr", "bullish") THEN 1 ELSE 0)

\* The volume ratio is exactly 1.5 and the open-interest ratio far above it:
\* no PCR message is written.
C10_Witness ==
    /\ pc = "done"
    /\ pcr # None
    /\ pcr.volume = Rat(3, 2)
    /\ pcr.open_interest = Rat(9, 1)
    /\ Count(warnings, "pcr") = 0
    /\ Count(opportunities, "pcr") = 0

\* C11: the short-dated warning is written iff dte < 7 and the long-dated
\* opportunity iff dte > 60; 7..60 write nothing; the sides and the ratio
\* play no part.
C11_DteCheck ==
    pc = "done" =>
        /\ HasMsg(warnings, "dte", "short") <=> dte < 7
        /\ HasMsg(opportunities, "dte", "long") <=> dte > 60
        /\ Count(warnings, "dte") = (IF dte < 7 THEN 1 ELSE 0)
        /\ Count(opportunities, "dte") = (IF dte > 60 THEN 1 ELSE 0)

\* Both sides and the ratio are absent and dte is 6: the short-dated warning
\* is the only message.
C11_Witness ==
    /\ pc = "done"
    /\ calls = None
    /\ puts = None
    /\ pcr = None
    /\ dte = 6
    /\ warnings = <<Msg("dte", "short")>>
    /\ opportunities = <<>>

\* The sign of puts.atm_iv - calls.atm_iv - bound.
SkewMinus(bound) ==
    puts.atm_iv.n * calls.atm_iv.d - calls.atm_iv.n * puts.atm_iv.d
        - bound * puts.atm_iv.d * calls.atm_iv.d

\* C12: with skew = puts.atm_iv - calls.atm_iv, the put-skew warning is
\* written iff both sides and both ATM IVs are present and skew > 10, the
\* call-skew opportunity iff they are present and skew < -10; nothing is
\* written when |skew| <= 10 or anything is absent.
C12_IvSkew ==
    pc = "done" =>
        LET present == /\ calls # None
                       /\ puts # None
                       /\ calls.atm_iv # None
                       /\ puts.atm_iv # None
        IN /\ HasMsg(warnings, "iv_skew", "put")
                <=> (present /\ SkewMinus(10) > 0)
           /\ HasMsg(opportunities, "iv_skew", "call")
                <=> (present /\ SkewMinus(-10) < 0)
           /\ Count(warnings, "iv_skew")
                = (IF HasMsg(warnings, "iv_skew", "put") THEN 1 ELSE 0)
           /\ Count(opportunities, "iv_skew")
                = (IF HasMsg(opportunities, "iv_skew", "call") THEN 1 ELSE 0)

\* The skew is exactly 10: no skew message is written.
C12_Witness ==
    /\ pc = "done"
    /\ calls # None
    /\ puts # None
    /\ calls.atm_iv = Rat(30, 1)
    /\ puts.atm_iv = Rat(40, 1)
    /\ Count(warnings, "iv_skew") = 0
    /\ Count(opportunities, "iv_skew") = 0

\* The unusual-volume condition of one side.
UnusualSide(side) ==
    /\ side # None
    /\ side.total_open_interest > 0
    /\ side.total_volume > 3 * side.total_open_interest

\* C14: for each present side the unusual-volume opportunity is written iff
\* total_open_interest > 0 and total_volume / total_open_interest > 3; a
\* side with no open interest is skipped; the check writes no warning.
C14_UnusualVolume ==
    pc = "done" =>
        /\ HasMsg(opportunities, "unusual_activity", "calls") <=> UnusualSide(calls)
        /\ HasMsg(opportunities, "unusual_activity", "puts") <=> UnusualSide(puts)
        /\ Count(warnings, "unusual_activity") = 0
        /\ Count(opportunities, "unusual_activity")
             = (IF UnusualSide(calls) THEN 1 ELSE 0)
               + (IF UnusualSide(puts) THEN 1 ELSE 0)

\* Calls traded with no open interest and the puts ratio is exactly 3: no
\* unusual-volume message is written.
C14_Witness ==
    /\ pc = "done"
    /\ calls # None
    /\ puts # None
    /\ calls.total_open_interest = 0
    /\ calls.total_volume = 30
    /\ puts.total_open_interest = 10
    /\ puts.total_volume = 30
    /\ Count(opportunities, "unusual_activity") = 0

\* The liquidity condition of one side.
IlliquidSide(side) == side # None /\ side.liquid_contracts < 5

\* C15: the liquidity warning naming a side is written iff that side is
\* present and its liquid_contracts < 5; 5 writes none, 0 writes one, an
\* absent side writes none.
C15_Liquidity ==
    pc = "done" =>
        /\ HasMsg(warnings, "liquidity", "calls") <=> IlliquidSide(calls)
        /\ HasMsg(warnings, "liquidity", "puts") <=> IlliquidSide(puts)
        /\ Count(opportunities, "liquidity") = 0
        /\ Count(warnings, "liquidity")
             = (IF IlliquidSide(calls) THEN 1 ELSE 0)
               + (IF IlliquidSide(puts) THEN 1 ELSE 0)

\* Calls have no liquid contract and puts have exactly 5: the only liquidity
\* warning names the calls.
C15_Witness ==
    /\ pc = "done"
    /\ calls # None
    /\ puts # None
    /\ calls.liquid_contracts = 0
    /\ puts.liquid_contracts = 5
    /\ HasMsg(warnings, "liquidity", "calls")
    /\ Count(warnings, "liquidity") = 1

\* The OI-concentration condition of one side, on the fields assess reads.
ConcentratedSide(side) ==
    /\ side # None
    /\ side.total_open_interest > 0
    /\ side.top_oi_strikes # <<>>
    /\ 100 * side.top_oi_strikes[1].open_interest > 30 * side.total_open_interest

\* Messages of the per-side checks about the side named label.
AboutSide(msgs, label) ==
    {i \in 1..Len(msgs) :
        /\ msgs[i].check \in {"liquidity", "oi_concentration", "unusual_activity"}
        /\ msgs[i].about = label}

\* What assess wrote (w, o) for a call with one side absent and the ratio of
\* _compute_pcr: nothing from the skew and PCR checks and nothing about the
\* absent side, while the IV-level check uses the present side and the
\* present side's checks and the DTE check decide as they always do.
OneSideAbsent(w, o) ==
    LET primary == IF calls # None THEN calls ELSE puts
    IN /\ Count(w, "iv_skew") + Count(o, "iv_skew") = 0
       /\ Count(w, "pcr") + Count(o, "pcr") = 0
       /\ calls = None => AboutSide(w, "calls") \cup AboutSide(o, "calls") = {}
       /\ puts = None => AboutSide(w, "puts") \cup AboutSide(o, "puts") = {}
       /\ HasMsg(w, "liquidity", "calls") <=> IlliquidSide(calls)
       /\ HasMsg(w, "liquidity", "puts") <=> IlliquidSide(puts)
       /\ HasMsg(w, "oi_concentration", "calls") <=> ConcentratedSide(calls)
       /\ HasMsg(w, "oi_concentration", "puts") <=> ConcentratedSide(puts)
       /\ HasMsg(o, "unusual_activity", "calls") <=> UnusualSide(calls)
       /\ HasMsg(o, "unusual_activity", "puts") <=> UnusualSide(puts)
       /\ HasMsg(w, "iv", "high")
            <=> (primary # None /\ RGt(primary.avg_implied_volatility, Rat(60, 1)))
       /\ HasMsg(o, "iv", "low")
            <=> (primary # None /\ RLt(primary.avg_implied_volatility, Rat(20, 1)))
       /\ HasMsg(w, "dte", "short") <=> dte < 7
       /\ HasMsg(o, "dte", "long") <=> dte > 60

\* C16: _compute_pcr and assess complete for every combination of absent and
\* present sides and ratios; _compute_pcr raises nothing, and an assess call
\* that follows it with a side absent writes nothing from the skew and PCR
\* checks and nothing about the absent side, while the present side's checks
\* and the DTE check still run.
C16_PartialAbsence ==
    /\ [](pc = "pcr" => pcr # Raised("ZeroDivisionError"))
    /\ [][(pc = "pcr" /\ pc' = "done" /\ (calls = None \/ puts = None))
             => OneSideAbsent(warnings', opportunities')]_vars

\* Calls are absent, puts are illiquid and concentrated and dte is 6: the
\* puts' warnings and the short-dated warning are written, and the ratio
\* is None.
C16_Witness ==
    /\ pc = "done"
    /\ calls = None
    /\ puts # None
    /\ puts.liquid_contracts = 4
    /\ pcr = None
    /\ dte = 6
    /\ HasMsg(warnings, "liquidity", "puts")
    /\ HasMsg(warnings, "oi_concentration", "puts")
    /\ HasMsg(warnings, "dte", "short")
    /\ HasMsg(opportunities, "unusual_activity", "puts")
    /\ Count(warnings, "pcr") + Count(warnings, "iv_skew") = 0

-----------------------------------------------------------------------------
(* Specification of the analysis steps of options_risk_analysis *)

\* Longest calls chain drawn.
MaxSideRows == 4

\* (volume, openInterest) of the rows drawn for the calls chain.
SideCells == {<<1, 0>>, <<1, 1>>, <<1, 3>>, <<1, 4>>, <<0, 4>>}

\* The puts chains drawn: empty, one liquid row, one illiquid row, the larger
\* open interest on an illiquid row, and a strike holding exactly 30%.
PutsChains ==
    {<<>>,
     LongChain(<<<<1, 3>>>>),
     LongChain(<<<<0, 4>>>>),
     LongChain(<<<<1, 1>>, <<0, 4>>>>),
     LongChain(<<<<1, 3>>, <<1, 3>>, <<1, 3>>, <<1, 1>>>>)}

OptionTypes == {"calls", "puts", "both"}

InitRequest ==
    /\ pc = "chains"
    /\ \E n \in 0..MaxSideRows :
           \E c \in [1..n -> SideCells] : calls_df = LongChain(c)
    /\ puts_df \in PutsChains
    /\ option_type \in OptionTypes
    /\ current_price = 1
    /\ min_volume = 1
    /\ dte = 30
    /\ options_df = <<>>
    /\ analysis = None
    /\ calls = None
    /\ puts = None
    /\ pcr = None
    /\ warnings = <<>>
    /\ opportunities = <<>>
    /\ IdleSel
    /\ IdleVehicle
    /\ IdleSpread
    /\ IdleOrch
    /\ IdleCompare

\* The positions distance.argsort().iloc[:1] may return for df.
AtmChoices(df) ==
    LET liquid == LiquidOptions(df, min_volume)
    IN IF liquid = <<>> THEN {0} ELSE ArgsortHead(liquid, current_price)

\* calls_analysis and puts_analysis: analyze_chain of the sides asked for.
AnalyzeChains ==
    /\ pc = "chains"
    /\ \E atm_c \in AtmChoices(calls_df), atm_p \in AtmChoices(puts_df) :
           /\ calls' = IF option_type \in {"calls", "both"}
                       THEN analyze_chain(calls_df, current_price, min_volume,
                                          atm_c)
                       ELSE None
           /\ puts' = IF option_type \in {"puts", "both"}
                      THEN analyze_chain(puts_df, current_price, min_volume,
                                         atm_p)
                      ELSE None
    /\ pc' = "analyzed"
    /\ UNCHANGED <<pcr, dte, warnings, opportunities>>
    /\ UNCHANGED <<calls_df, puts_df, option_type>>
    /\ UNCHANGED selVars
    /\ UNCHANGED chainVars
    /\ UNCHANGED <<vehicleVars, spreadVars, orchVars, compareVars>>

\* pcr = _compute_pcr(...); warnings, opportunities = assess(..., pcr, dte)
AssessRisk ==
    /\ pc = "analyzed"
    /\ tool \in {"none", "options_risk_analysis"}
    /\ LET r == _compute_pcr(calls, puts)
           out == assess(calls, puts, r, dte)
       IN /\ pcr' = r
          /\ warnings' = out.w
          /\ opportunities' = out.o
    /\ pc' = "done"
    /\ UNCHANGED <<calls, puts, dte>>
    /\ UNCHANGED <<calls_df, puts_df, option_type>>
    /\ UNCHANGED selVars
    /\ UNCHANGED chainVars
    /\ UNCHANGED <<vehicleVars, spreadVars, orchVars, compareVars>>

NextRequest == AnalyzeChains \/ AssessRisk

SpecRequest == InitRequest /\ [][NextRequest]_vars

\* The largest open interest of a row of df, 0 for no row.
RECURSIVE MaxOi(_)
MaxOi(df) ==
    IF df = <<>>
    THEN 0
    ELSE LET rest == MaxOi(Tail(df))
         IN IF Head(df).openInterest > rest THEN Head(df).openInterest ELSE rest

\* A strike of the chain df holds more than 30% of the side's open interest.
PinRisk(df, side) ==
    /\ side # None
    /\ side.total_open_interest > 0
    /\ 100 * MaxOi(df) > 30 * side.total_open_interest

\* C13 as stated: after analyze_chain and assess, the pin-risk warning of a
\* side is written iff the side is present, its total open interest is > 0
\* and the largest open interest of any of its strikes is more than 30% of
\* that total.
C13_PinRisk ==
    pc = "done" =>
        /\ HasMsg(warnings, "oi_concentration", "calls") <=> PinRisk(calls_df, calls)
        /\ HasMsg(warnings, "oi_concentration", "puts") <=> PinRisk(puts_df, puts)

\* The calls strike holding 80% of the open interest traded below min_volume:
\* no pin-risk warning is written for the calls.
C13_Witness ==
    /\ pc = "done"
    /\ calls # None
    /\ calls_df = LongChain(<<<<1, 1>>, <<0, 4>>>>)
    /\ PinRisk(calls_df, calls)
    /\ ~HasMsg(warnings, "oi_concentration", "calls")

-----------------------------------------------------------------------------
(* VehicleSelector.select *)

OPTION_MIN_EXPECTED_MOVE == Rat(3, 1)

OPTION_SWING_MIN_DTE == 30

OPTION_SWING_MAX_DTE == 45

OPTION_CALL_DELTA_MIN == Rat(40, 100)

OPTION_CALL_DELTA_MAX == Rat(60, 100)

OPTION_PUT_DELTA_MIN == Rat(-60, 100)

OPTION_PUT_DELTA_MAX == Rat(-40, 100)

\* A str held in an optional field.
Str(text) == [str |-> text]

\* A pair (lo, hi) held in an optional field.
Range(lo, hi) == [lo |-> lo, hi |-> hi]

\* The width text, which prints the expected move.
WidthInfo(move) == [atr_width_for_move |-> move]

\* VehicleRecommendation; reasoning is the rule that produced it.
VehicleRecommendation(vehicle, reasoning, days, delta, spread, width, move) ==
    [vehicle |-> vehicle,
     reasoning |-> reasoning,
     dte_range |-> days,
     delta_range |-> delta,
     spread_type |-> spread,
     spread_width_info |-> width,
     expected_move_percent |-> move]

\* select with rule 2 taking the threshold itself as a small move.
select_inclusive(tf, regime, b, move) ==
    LET dte_range == Range(OPTION_SWING_MIN_DTE, OPTION_SWING_MAX_DTE)
        calls_delta == Range(OPTION_CALL_DELTA_MIN, OPTION_CALL_DELTA_MAX)
        puts_delta == Range(OPTION_PUT_DELTA_MIN, OPTION_PUT_DELTA_MAX)
    IN IF tf # "swing"
       THEN VehicleRecommendation("stock", "non_swing", None, None, None,
                                  None, None)
       ELSE IF ~RGt(move, OPTION_MIN_EXPECTED_MOVE)
       THEN VehicleRecommendation("stock", "small_move", None, None, None,
                                  None, move)
       ELSE IF regime = "medium"
       THEN IF b = "bullish"
            THEN VehicleRecommendation("option_call", "medium_bullish",
                                       dte_range, calls_delta, None, None, move)
            ELSE VehicleRecommendation("option_put", "medium_bearish",
                                       dte_range, puts_delta, None, None, move)
       ELSE IF regime = "high"
       THEN IF b = "bullish"
            THEN VehicleRecommendation("option_spread", "high_bullish",
                                       dte_range, calls_delta,
                                       Str("Bull Call Spread"),
                                       WidthInfo(move), move)
            ELSE VehicleRecommendation("option_spread", "high_bearish",
                                       dte_range, puts_delta,
                                       Str("Bear Put Spread"),
                                       WidthInfo(move), move)
       ELSE VehicleRecommendation("stock", "low_volatility", None, None, None,
                                  None, move)

\* select whose low-volatility stock recommendation carries the DTE range.
select_stock_ranges(tf, regime, b, move) ==
    LET dte_range == Range(OPTION_SWING_MIN_DTE, OPTION_SWING_MAX_DTE)
        calls_delta == Range(OPTION_CALL_DELTA_MIN, OPTION_CALL_DELTA_MAX)
        puts_delta == Range(OPTION_PUT_DELTA_MIN, OPTION_PUT_DELTA_MAX)
    IN IF tf # "swing"
       THEN VehicleRecommendation("stock", "non_swing", None, None, None,
                                  None, None)
       ELSE IF RLt(move, OPTION_MIN_EXPECTED_MOVE)
       THEN VehicleRecommendation("stock", "small_move", None, None, None,
                                  None, move)
       ELSE IF regime = "medium"
       THEN IF b = "bullish"
            THEN VehicleRecommendation("option_call", "medium_bullish",
                                       dte_range, calls_delta, None, None, move)
            ELSE VehicleRecommendation("option_put", "medium_bearish",
                                       dte_range, puts_delta, None, None, move)
       ELSE IF regime = "high"
       THEN IF b = "bullish"
            THEN VehicleRecommendation("option_spread", "high_bullish",
                                       dte_range, calls_delta,
                                       Str("Bull Call Spread"),
                                       WidthInfo(move), move)
            ELSE VehicleRecommendation("option_spread", "high_bearish",
                                       dte_range, puts_delta,
                                       Str("Bear Put Spread"),
                                       WidthInfo(move), move)
       ELSE VehicleRecommendation("stock", "low_volatility", dte_range, None,
                                  None, None, move)

select(tf, regime, b, move) ==
    LET dte_range == Range(OPTION_SWING_MIN_DTE, OPTION_SWING_MAX_DTE)
        calls_delta == Range(OPTION_CALL_DELTA_MIN, OPTION_CALL_DELTA_MAX)
        puts_delta == Range(OPTION_PUT_DELTA_MIN, OPTION_PUT_DELTA_MAX)
    IN IF tf # "swing"
       THEN VehicleRecommendation("stock", "non_swing", None, None, None,
                                  None, None)
       ELSE IF RLt(move, OPTION_MIN_EXPECTED_MOVE)
       THEN VehicleRecommendation("stock", "small_move", None, None, None,
                                  None, move)
       ELSE IF regime = "medium"
       THEN IF b = "bullish"
            THEN VehicleRecommendation("option_call", "medium_bullish",
                                       dte_range, calls_delta, None, None, move)
            ELSE VehicleRecommendation("option_put", "medium_bearish",
                                       dte_range, puts_delta, None, None, move)
       ELSE IF regime = "high"
       THEN IF b = "bullish"
            THEN VehicleRecommendation("option_spread", "high_bullish",
                                       dte_range, calls_delta,
                                       Str("Bull Call Spread"),
                                       WidthInfo(move), move)
            ELSE VehicleRecommendation("option_spread", "high_bearish",
                                       dte_range, puts_delta,
                                       Str("Bear Put Spread"),
                                       WidthInfo(move), move)
       ELSE VehicleRecommendation("stock", "low_volatility", None, None, None,
                                  None, move)

-----------------------------------------------------------------------------
(* Specification of VehicleSelector.select calls *)

Timeframes == {"swing", "day", "scalp"}

VolatilityRegimes == {"low", "medium", "high"}

Biases == {"bullish", "bearish", "neutral"}

Moves == {Rat(-1, 1), Rat(0, 1), Rat(29, 10), Rat(3, 1), Rat(31, 10), Rat(5, 1)}

InitSelect ==
    /\ pc = "call"
    /\ hist = <<>>
    /\ timeframe \in Timeframes
    /\ volatility_regime \in VolatilityRegimes
    /\ bias \in Biases
    /\ expected_move_percent \in Moves
    /\ recommendation = None
    /\ IdleSel
    /\ IdleChain
    /\ IdleRisk
    /\ IdleRequest
    /\ IdleSpread
    /\ IdleOrch
    /\ IdleCompare

Select ==
    /\ pc = "call"
    /\ recommendation' =
           select(timeframe, volatility_regime, bias, expected_move_percent)
    /\ pc' = "done"
    /\ UNCHANGED <<hist, timeframe, volatility_regime, bias,
                   expected_move_percent>>
    /\ UNCHANGED <<selVars, chainVars, riskVars, requestVars, spreadVars>>
    /\ UNCHANGED <<orchVars, compareVars>>

NextSelect == Select

SpecSelect == InitSelect /\ [][NextSelect]_vars

\* C17: select follows the decision tree, first match wins: a timeframe other
\* than swing gives stock; else a move < 3.0 (3.0 itself not) gives stock;
\* else medium volatility gives option_call with DTE (30, 45) and delta
\* (0.40, 0.60) for a bullish bias and option_put with DTE (30, 45) and delta
\* (-0.60, -0.40) for any other; else high volatility gives option_spread
\* with DTE (30, 45), a bull call spread for a bullish bias and a bear put
\* spread for any other; else stock.
C17_DecisionTree ==
    pc = "done" =>
        LET r == recommendation
            move == expected_move_percent
        IN IF timeframe # "swing"
           THEN r.vehicle = "stock"
           ELSE IF move.n < 3 * move.d
           THEN r.vehicle = "stock"
           ELSE IF volatility_regime = "medium"
           THEN IF bias = "bullish"
                THEN /\ r.vehicle = "option_call"
                     /\ r.dte_range = Range(30, 45)
                     /\ r.delta_range = Range(Rat(2, 5), Rat(3, 5))
                ELSE /\ r.vehicle = "option_put"
                     /\ r.dte_range = Range(30, 45)
                     /\ r.delta_range = Range(Rat(-3, 5), Rat(-2, 5))
           ELSE IF volatility_regime = "high"
           THEN /\ r.vehicle = "option_spread"
                /\ r.dte_range = Range(30, 45)
                /\ r.spread_type = IF bias = "bullish"
                                   THEN Str("Bull Call Spread")
                                   ELSE Str("Bear Put Spread")
           ELSE r.vehicle = "stock"

\* A swing trade on a move of exactly 3.0 in medium volatility with a bias
\* that is not bullish: a put is recommended.
C17_Witness ==
    /\ pc = "done"
    /\ timeframe = "swing"
    /\ volatility_regime = "medium"
    /\ bias = "neutral"
    /\ expected_move_percent = Rat(3, 1)
    /\ recommendation.vehicle = "option_put"

\* C18: a stock recommendation has dte_range, delta_range, spread_type and
\* spread_width_info all None; an option_call, option_put or option_spread
\* recommendation has dte_range set; spread_type and spread_width_info are
\* set only on option_spread.
C18_FieldsByVehicle ==
    pc = "done" =>
        LET r == recommendation
        IN /\ r.vehicle = "stock" =>
                 /\ r.dte_range = None
                 /\ r.delta_range = None
                 /\ r.spread_type = None
                 /\ r.spread_width_info = None
           /\ r.vehicle \in {"option_call", "option_put", "option_spread"} =>
                 r.dte_range # None
           /\ r.spread_type # None => r.vehicle = "option_spread"
           /\ r.spread_width_info # None => r.vehicle = "option_spread"

\* A swing trade on a large move in low volatility: stock, with every option
\* field None.
C18_Witness ==
    /\ pc = "done"
    /\ timeframe = "swing"
    /\ volatility_regime = "low"
    /\ expected_move_percent = Rat(5, 1)
    /\ recommendation.vehicle = "stock"
    /\ recommendation.dte_range = None
    /\ recommendation.spread_type = None

-----------------------------------------------------------------------------
(* _fetch_volatility_regime *)

\* The rolling window and the least number of bars.
ATR_WINDOW == 14

VOLATILITY_LOW_THRESHOLD == Rat(15, 10)

VOLATILITY_HIGH_THRESHOLD == Rat(3, 1)

\* One row of ticker.history; prices are whole numbers, Close > 0.
Bar(high, low, close) == [High |-> high, Low |-> low, Close |-> close]

Max2(a, b) == IF a > b THEN a ELSE b

\* true_range at position i: the row-wise max of tr1, tr2, tr3, which skips
\* the NaN that close.shift(1) leaves in tr2 and tr3 of the first row.
TrueRange(h, i) ==
    LET tr1 == h[i].High - h[i].Low
    IN IF i = 1
       THEN tr1
       ELSE Max2(tr1, Max2(Abs(h[i].High - h[i - 1].Close),
                           Abs(h[i].Low - h[i - 1].Close)))

\* The sum of true_range over positions a..b.
RECURSIVE SumTrueRange(_, _, _)
SumTrueRange(h, a, b) ==
    IF a > b THEN 0 ELSE TrueRange(h, a) + SumTrueRange(h, a + 1, b)

\* _fetch_volatility_regime with inclusive comparisons.
_fetch_volatility_regime_inclusive(h) ==
    IF h = <<>> \/ Len(h) < ATR_WINDOW
    THEN "medium"
    ELSE LET n == Len(h)
             atr == Rat(SumTrueRange(h, n - ATR_WINDOW + 1, n), ATR_WINDOW)
             close == h[n].Close
             atr_percent == Rat(atr.n * 100, atr.d * close)
         IN IF ~RGt(atr_percent, VOLATILITY_LOW_THRESHOLD)
            THEN "low"
            ELSE IF ~RLt(atr_percent, VOLATILITY_HIGH_THRESHOLD)
                 THEN "high"
                 ELSE "medium"

_fetch_volatility_regime(h) ==
    IF h = <<>> \/ Len(h) < ATR_WINDOW
    THEN "medium"
    ELSE LET n == Len(h)
             atr == Rat(SumTrueRange(h, n - ATR_WINDOW + 1, n), ATR_WINDOW)
             close == h[n].Close
             atr_percent == Rat(atr.n * 100, atr.d * close)
         IN IF RLt(atr_percent, VOLATILITY_LOW_THRESHOLD)
            THEN "low"
            ELSE IF RGt(atr_percent, VOLATILITY_HIGH_THRESHOLD)
                 THEN "high"
                 ELSE "medium"

-----------------------------------------------------------------------------
(* Specification of _fetch_volatility_regime calls *)

\* Longest history drawn.
MaxBars == 15

HistLengths == {0} \cup (13..MaxBars)

\* The daily range of the quiet and of the lively history.
Levels == {1, 3}

BaseBar(level) == Bar(100 + level, 100, 100)

\* The bars that replace a base bar: wider ranges, a lower range, a close at
\* the high and a gap up.
BarCells == {Bar(104, 100, 100), Bar(105, 100, 100), Bar(102, 100, 100),
             Bar(101, 100, 101), Bar(106, 104, 104)}

\* Histories of n bars at a level with at most two bars replaced.
Hists(n, level) ==
    IF n = 0
    THEN {<<>>}
    ELSE {[[k \in 1..n |-> BaseBar(level)] EXCEPT ![i] = a, ![j] = b] :
              i \in 1..n, j \in 1..n,
              a \in BarCells \cup {BaseBar(level)},
              b \in BarCells \cup {BaseBar(level)}}

InitRegime ==
    /\ pc = "call"
    /\ \E n \in HistLengths, level \in Levels : hist \in Hists(n, level)
    /\ timeframe = "swing"
    /\ volatility_regime = "unset"
    /\ bias = "bullish"
    /\ expected_move_percent = None
    /\ recommendation = None
    /\ IdleSel
    /\ IdleChain
    /\ IdleRisk
    /\ IdleRequest
    /\ IdleSpread
    /\ IdleOrch
    /\ IdleCompare

\* vol_regime = await _fetch_volatility_regime(symbol)
FetchVolatilityRegime ==
    /\ pc = "call"
    /\ volatility_regime' = _fetch_volatility_regime(hist)
    /\ pc' = "done"
    /\ UNCHANGED <<hist, timeframe, bias, expected_move_percent, recommendation>>
    /\ UNCHANGED <<selVars, chainVars, riskVars, requestVars, spreadVars>>
    /\ UNCHANGED <<orchVars, compareVars>>

NextRegime == FetchVolatilityRegime

SpecRegime == InitRegime /\ [][NextRegime]_vars

\* The largest of the range of bar i and the distances of its high and its
\* low from the close before it.
RangeOfBar(i) ==
    LET parts == {hist[i].High - hist[i].Low}
                 \cup (IF i = 1
                       THEN {}
                       ELSE {hist[i].High - hist[i - 1].Close,
                             hist[i - 1].Close - hist[i].High,
                             hist[i].Low - hist[i - 1].Close,
                             hist[i - 1].Close - hist[i].Low})
    IN CHOOSE x \in parts : \A y \in parts : y <= x

\* Fourteen times the 14-period ATR: the ranges of the last 14 bars, summed.
Atr14Times14 ==
    LET n == Len(hist)
        upto[k \in (n - 14)..n] ==
            IF k = n - 14 THEN 0 ELSE upto[k - 1] + RangeOfBar(k)
    IN upto[n]

\* C19: with fewer than 14 bars the regime is medium; otherwise, with
\* atr_percent = 14-period ATR / last close * 100, it is low iff
\* atr_percent < 1.5, high iff atr_percent > 3.0 and medium iff
\* 1.5 <= atr_percent <= 3.0.
C19_Regime ==
    pc = "done" =>
        IF Len(hist) < 14
        THEN volatility_regime = "medium"
        ELSE LET close == hist[Len(hist)].Close
                 \* atr_percent < 1.5 and atr_percent > 3.0, cleared of
                 \* fractions
                 below == 2 * 100 * Atr14Times14 < 3 * 14 * close
                 above == 100 * Atr14Times14 > 3 * 14 * close
             IN /\ volatility_regime = "low" <=> below
                /\ volatility_regime = "high" <=> above
                /\ volatility_regime = "medium" <=> (~below /\ ~above)

\* Exactly 14 bars with atr_percent exactly 1.5: the regime is medium.
C19_Witness ==
    /\ pc = "done"
    /\ Len(hist) = 14
    /\ 2 * 100 * Atr14Times14 = 3 * 14 * hist[14].Close
    /\ volatility_regime = "medium"

-----------------------------------------------------------------------------
(* _analyze_spread_trade: the spread metrics *)

RMul(x, y) == Rat(x.n * y.n, x.d * y.d)

\* x / y for y # 0.
RDiv(x, y) ==
    IF y.n < 0 THEN Rat(-(x.n * y.d), x.d * (-y.n)) ELSE Rat(x.n * y.d, x.d * y.n)

\* round(x, 2): the nearest hundredth, a tie going to the even one (the
\* float decides a tie in Python; the values drawn have none).
Round2(x) ==
    LET scaled == x.n * 100
        q == scaled \div x.d
        r == scaled % x.d
    IN IF 2 * r < x.d THEN Rat(q, 100)
       ELSE IF 2 * r > x.d THEN Rat(q + 1, 100)
       ELSE IF q % 2 = 0 THEN Rat(q, 100) ELSE Rat(q + 1, 100)

\* leg.get(key, 0) or 0
OrZero(x) == IF x = None THEN Rat(0, 1) ELSE x

\* str.lower on the spread types drawn.
Lower(text) == IF text = "BULL_CALL" THEN "bull_call" ELSE text

SpreadTypes ==
    {"bull_call", "bear_put", "bull_put_credit", "bear_call_credit",
     "iron_condor", "straddle", "strangle"}

\* "put" in spread_type
HasPut(spread_type) == spread_type \in {"bear_put", "bull_put_credit"}

\* "call" in spread_type
HasCall(spread_type) == spread_type \in {"bull_call", "bear_call_credit"}

\* The metrics taking the breakeven of a credit spread from the long strike.
_analyze_spread_trade_long_strike(req, buy, sell) ==
    LET spread_type == Lower(req.spread_type)
        is_credit == spread_type \in {"bull_put_credit", "bear_call_credit"}
        spread_width == RAbs(RSub(req.sell_strike, req.buy_strike))
        lot == Rat(100 * req.contracts, 1)
        net_premium == RSub(OrZero(sell.bid), OrZero(buy.ask))
        net_debit == RSub(OrZero(buy.ask), OrZero(sell.bid))
        max_profit == IF is_credit
                      THEN RMul(net_premium, lot)
                      ELSE RMul(RSub(spread_width, net_debit), lot)
        max_loss == IF is_credit
                    THEN RMul(RSub(spread_width, net_premium), lot)
                    ELSE RMul(net_debit, lot)
        breakeven == IF is_credit
                     THEN IF HasPut(spread_type)
                          THEN RSub(req.buy_strike, net_premium)
                          ELSE RAdd(req.buy_strike, net_premium)
                     ELSE IF HasCall(spread_type)
                          THEN RAdd(req.buy_strike, net_debit)
                          ELSE RSub(req.buy_strike, net_debit)
        rr_ratio == IF max_loss.n # 0
                    THEN RAbs(RDiv(max_profit, max_loss))
                    ELSE Rat(0, 1)
    IN IF spread_type \notin SpreadTypes
       THEN Raised("ValueError")
       ELSE [spread_type |-> spread_type,
             spread_width |-> Round2(spread_width),
             is_credit |-> is_credit,
             max_profit |-> Round2(max_profit),
             max_loss |-> Round2(RAbs(max_loss)),
             risk_reward_ratio |-> Round2(rr_ratio),
             breakeven |-> Round2(breakeven)]

\* The metrics _analyze_spread_trade reports for the request and the two
\* contracts found, or the ValueError of an unknown spread type.
_analyze_spread_trade(req, buy, sell) ==
    LET spread_type == Lower(req.spread_type)
        is_credit == spread_type \in {"bull_put_credit", "bear_call_credit"}
        spread_width == RAbs(RSub(req.sell_strike, req.buy_strike))
        lot == Rat(100 * req.contracts, 1)
        net_premium == RSub(OrZero(sell.bid), OrZero(buy.ask))
        net_debit == RSub(OrZero(buy.ask), OrZero(sell.bid))
        max_profit == IF is_credit
                      THEN RMul(net_premium, lot)
                      ELSE RMul(RSub(spread_width, net_debit), lot)
        max_loss == IF is_credit
                    THEN RMul(RSub(spread_width, net_premium), lot)
                    ELSE RMul(net_debit, lot)
        breakeven == IF is_credit
                     THEN IF HasPut(spread_type)
                          THEN RSub(req.sell_strike, net_premium)
                          ELSE RAdd(req.sell_strike, net_premium)
                     ELSE IF HasCall(spread_type)
                          THEN RAdd(req.buy_strike, net_debit)
                          ELSE RSub(req.buy_strike, net_debit)
        rr_ratio == IF max_loss.n # 0
                    THEN RAbs(RDiv(max_profit, max_loss))
                    ELSE Rat(0, 1)
    IN IF spread_type \notin SpreadTypes
       THEN Raised("ValueError")
       ELSE [spread_type |-> spread_type,
             spread_width |-> Round2(spread_width),
             is_credit |-> is_credit,
             max_profit |-> Round2(max_profit),
             max_loss |-> Round2(RAbs(max_loss)),
             risk_reward_ratio |-> Round2(rr_ratio),
             breakeven |-> Round2(breakeven)]

-----------------------------------------------------------------------------
(* Specification of the spread metrics of _analyze_spread_trade *)

RequestTypes == SpreadTypes \cup {"BULL_CALL", "butterfly"}

RequestStrikes == {Rat(96, 1), Rat(100, 1), Rat(100123, 1000)}

Contracts == {1, 3}

\* bid and ask of a contract; None for a quote the row does not carry.
Quote(bid, ask) == [bid |-> bid, ask |-> ask]

Quotes == {Quote(None, None), Quote(Rat(70, 100), Rat(80, 100)),
           Quote(Rat(2, 1), Rat(21, 10)), Quote(Rat(6, 1), Rat(62, 10))}

SpreadTradeRequest(spread_type, buy_strike, sell_strike, n, action, entry) ==
    [spread_type |-> spread_type,
     buy_strike |-> buy_strike,
     sell_strike |-> sell_strike,
     contracts |-> n,
     action |-> action,
     entry_price |-> entry]

\* action and entry_price of the requests drawn.
Closings ==
    {<<"open", None>>, <<"open", Rat(120, 100)>>, <<"close", None>>,
     <<"close", Rat(0, 1)>>, <<"close", Rat(120, 100)>>}

InitSpread ==
    /\ pc = "call"
    /\ \E t \in RequestTypes, b \in RequestStrikes, k \in RequestStrikes,
          n \in Contracts, c \in Closings :
              request = SpreadTradeRequest(t, b, k, n, c[1], c[2])
    /\ buy_leg \in Quotes
    /\ sell_leg \in Quotes
    /\ spread_result = None
    /\ close_analysis = None
    /\ ai_analysis = None
    /\ llm = None
    /\ IdleOrch
    /\ IdleCompare
    /\ IdleSel
    /\ IdleChain
    /\ IdleRisk
    /\ IdleRequest
    /\ IdleVehicle

\* spread_result built from the request and the two legs.
SpreadMetrics ==
    /\ pc = "call"
    /\ spread_result' = _analyze_spread_trade(request, buy_leg, sell_leg)
    /\ pc' = "done"
    /\ UNCHANGED <<request, buy_leg, sell_leg, close_analysis, ai_analysis, llm>>
    /\ UNCHANGED <<selVars, chainVars, riskVars, requestVars, vehicleVars>>
    /\ UNCHANGED <<orchVars, compareVars>>

\* The close analysis with the current value taken from the quotes the
\* entry was priced on.
CloseAnalysisDict_entry_side(req, buy, sell, is_credit) ==
    IF req.action = "close" /\ req.entry_price # None
    THEN LET current_value ==
                 IF is_credit
                 THEN RSub(OrZero(sell.bid), OrZero(buy.ask))
                 ELSE RSub(OrZero(buy.ask), OrZero(sell.bid))
             pnl_per_spread ==
                 IF is_credit
                 THEN RSub(req.entry_price, current_value)
                 ELSE RSub(current_value, req.entry_price)
         IN [entry_price |-> req.entry_price,
             current_value |-> Round2(current_value),
             pnl_per_spread |-> Round2(pnl_per_spread),
             total_pnl |->
                 Round2(RMul(pnl_per_spread, Rat(100 * req.contracts, 1))),
             pnl_percent |->
                 IF req.entry_price # Rat(0, 1)
                 THEN Round2(RMul(RDiv(pnl_per_spread, req.entry_price),
                                  Rat(100, 1)))
                 ELSE Rat(0, 1)]
    ELSE None

\* spread_result["close_analysis"], None when the key is not set.
CloseAnalysisDict(req, buy, sell, is_credit) ==
    IF req.action = "close" /\ req.entry_price # None
    THEN LET current_value ==
                 IF is_credit
                 THEN RSub(OrZero(sell.ask), OrZero(buy.bid))
                 ELSE RSub(OrZero(buy.bid), OrZero(sell.ask))
             pnl_per_spread ==
                 IF is_credit
                 THEN RSub(req.entry_price, current_value)
                 ELSE RSub(current_value, req.entry_price)
         IN [entry_price |-> req.entry_price,
             current_value |-> Round2(current_value),
             pnl_per_spread |-> Round2(pnl_per_spread),
             total_pnl |->
                 Round2(RMul(pnl_per_spread, Rat(100 * req.contracts, 1))),
             pnl_percent |->
                 IF req.entry_price # Rat(0, 1)
                 THEN Round2(RMul(RDiv(pnl_per_spread, req.entry_price),
                                  Rat(100, 1)))
                 ELSE Rat(0, 1)]
    ELSE None

\* The close analysis of a request whose spread type was accepted.
CloseAnalysis ==
    /\ pc = "done"
    /\ tool \in {"none", "_analyze_spread_trade"}
    /\ request # None
    /\ spread_result \notin {None, Raised("ValueError")}
    /\ close_analysis' =
           CloseAnalysisDict(request, buy_leg, sell_leg, spread_result.is_credit)
    /\ pc' = "closed"
    /\ UNCHANGED <<request, buy_leg, sell_leg, spread_result, ai_analysis, llm>>
    /\ UNCHANGED <<selVars, chainVars, riskVars, requestVars, vehicleVars>>
    /\ UNCHANGED <<orchVars, compareVars>>

\* A response text is the sequence of its pieces: a fence, white space, a
\* JSON document (the empty object) or words that are not JSON.
\* The pieces: three backquotes followed by json, three backquotes, a line
\* break, and the text of the empty JSON object.
FenceJson == "fence json"

Fence == "fence"

Newline == "newline"

JsonDoc == "{}"

ResponseTexts ==
    {<<JsonDoc>>,
     <<FenceJson, Newline, JsonDoc, Newline, Fence>>,
     <<Fence, JsonDoc, Fence, Newline>>,
     <<"Hold the spread.">>,
     <<FenceJson, "Hold the spread.">>,
     <<>>}

\* str.strip
RECURSIVE Strip(_)
Strip(text) ==
    IF text = <<>> THEN text
    ELSE IF Head(text) = Newline THEN Strip(Tail(text))
    ELSE IF text[Len(text)] = Newline THEN Strip(SubSeq(text, 1, Len(text) - 1))
    ELSE text

\* json.loads
json_loads(text) ==
    IF text = <<JsonDoc>> THEN [items |-> <<>>]
    ELSE Raised("JSONDecodeError")

_parse_ai_response(response_text) ==
    LET cleaned == Strip(response_text)
        no_json == IF cleaned # <<>> /\ Head(cleaned) = FenceJson
                   THEN Tail(cleaned) ELSE cleaned
        no_open == IF no_json # <<>> /\ Head(no_json) = Fence
                   THEN Tail(no_json) ELSE no_json
        no_close == IF no_open # <<>> /\ no_open[Len(no_open)] = Fence
                    THEN SubSeq(no_open, 1, Len(no_open) - 1) ELSE no_open
        parsed == json_loads(Strip(no_close))
    IN IF parsed = Raised("JSONDecodeError")
       THEN [error |-> Str("AI response parsing failed"),
             raw_response |-> response_text,
             parse_error |-> Str("JSONDecodeError")]
       ELSE parsed

\* What the LLM call does: raise, or answer with a text.
LlmOutcomes ==
    {Raised("Exception")} \cup {[text |-> t] : t \in ResponseTexts}

\* The AI step letting the exception of the LLM call out.
AiAnalysisDict_raises(key, outcome, before) ==
    IF ~key THEN before
    ELSE IF outcome = Raised("Exception") THEN outcome
    ELSE _parse_ai_response(outcome.text)

\* spread_result["ai_analysis"] after the optional AI step, before being
\* its value when the key is not set.
AiAnalysisDict(key, outcome, before) ==
    IF ~key THEN before
    ELSE IF outcome = Raised("Exception")
    THEN [status |-> Str("error"), error |-> Str("Exception")]
    ELSE _parse_ai_response(outcome.text)

\* The optional AI analysis and the return of spread_result.
AiAnalysis ==
    /\ pc = "closed"
    /\ \E key \in BOOLEAN :
       \E outcome \in (IF key THEN LlmOutcomes ELSE {None}) :
          /\ llm' = [key |-> key, outcome |-> outcome]
          /\ ai_analysis' = AiAnalysisDict(key, outcome, ai_analysis)
    /\ pc' = "returned"
    /\ UNCHANGED <<request, buy_leg, sell_leg, spread_result, close_analysis>>
    /\ UNCHANGED <<selVars, chainVars, riskVars, requestVars, vehicleVars>>
    /\ UNCHANGED <<orchVars, compareVars>>

NextSpread == SpreadMetrics \/ CloseAnalysis \/ AiAnalysis

SpecSpread == InitSpread /\ [][NextSpread]_vars

\* The reference formulas of the four two-leg types on the request and the
\* quotes, a quote that is None counting as 0.
RefCredit == RSub(OrZero(sell_leg.bid), OrZero(buy_leg.ask))

RefDebit == RSub(OrZero(buy_leg.ask), OrZero(sell_leg.bid))

RefWidth == RAbs(RSub(request.sell_strike, request.buy_strike))

RefLot == Rat(100 * request.contracts, 1)

RefIsCredit == Lower(request.spread_type) \in {"bull_put_credit", "bear_call_credit"}

RefMaxProfit ==
    IF RefIsCredit
    THEN RMul(RefCredit, RefLot)
    ELSE RMul(RSub(RefWidth, RefDebit), RefLot)

RefMaxLoss ==
    IF RefIsCredit
    THEN RMul(RSub(RefWidth, RefCredit), RefLot)
    ELSE RMul(RefDebit, RefLot)

RefBreakeven ==
    CASE Lower(request.spread_type) = "bull_put_credit" ->
             RSub(request.sell_strike, RefCredit)
      [] Lower(request.spread_type) = "bear_call_credit" ->
             RAdd(request.sell_strike, RefCredit)
      [] Lower(request.spread_type) = "bull_call" ->
             RAdd(request.buy_strike, RefDebit)
      [] Lower(request.spread_type) = "bear_put" ->
             RSub(request.buy_strike, RefDebit)

TwoLegTypes == {"bull_call", "bear_put", "bull_put_credit", "bear_call_credit"}

\* C20 as stated: for the four two-leg types the reported max profit, max
\* loss and breakeven are the values of the reference formulas, and the
\* credit flag is true exactly for the two credit types.
C20_ReferenceFormulas ==
    (pc = "done" /\ Lower(request.spread_type) \in TwoLegTypes) =>
        /\ spread_result.is_credit = RefIsCredit
        /\ spread_result.max_profit = RefMaxProfit
        /\ spread_result.max_loss = RefMaxLoss
        /\ spread_result.breakeven = RefBreakeven

\* C20 amended: for the four two-leg types the reported max profit and
\* breakeven are the values of the reference formulas rounded to two
\* decimals, the reported max loss is the absolute value of its formula
\* rounded to two decimals, and the credit flag is true exactly for the two
\* credit types.
C20_RoundedAbsolute ==
    (pc = "done" /\ Lower(request.spread_type) \in TwoLegTypes) =>
        /\ spread_result.is_credit = RefIsCredit
        /\ spread_result.max_profit = Round2(RefMaxProfit)
        /\ spread_result.max_loss = Round2(RAbs(RefMaxLoss))
        /\ spread_result.breakeven = Round2(RefBreakeven)

\* A bull put credit spread of width 4 collecting 6.00 - 0.80 = 5.20: the
\* formula's max loss is -120 and 120 is reported.
C20_Witness ==
    /\ pc = "done"
    /\ request.spread_type = "bull_put_credit"
    /\ request.sell_strike = Rat(100, 1)
    /\ request.buy_strike = Rat(96, 1)
    /\ request.contracts = 1
    /\ sell_leg.bid = Rat(6, 1)
    /\ buy_leg.ask = Rat(80, 100)
    /\ RefMaxLoss = Rat(-120, 1)
    /\ spread_result.max_loss = Rat(120, 1)
    /\ spread_result.max_profit = Rat(520, 1)

\* The reference close-out values on the request and the quotes, a quote
\* that is None counting as 0.
RefCurrentValue ==
    IF RefIsCredit
    THEN RSub(OrZero(sell_leg.ask), OrZero(buy_leg.bid))
    ELSE RSub(OrZero(buy_leg.bid), OrZero(sell_leg.ask))

RefPnl ==
    IF RefIsCredit
    THEN RSub(request.entry_price, RefCurrentValue)
    ELSE RSub(RefCurrentValue, request.entry_price)

RefPercent ==
    IF request.entry_price = Rat(0, 1) THEN Rat(0, 1)
    ELSE RMul(RDiv(RefPnl, request.entry_price), Rat(100, 1))

\* The close analysis has been passed and the request asked for it.
Closing ==
    /\ pc \in {"closed", "returned"}
    /\ tool = "none"
    /\ request.action = "close"
    /\ request.entry_price # None

\* C21 as stated: for a close with an entry price the reported current value,
\* P&L per spread, total P&L and percent are the values of the reference
\* formulas, the percent being 0 when the entry price is 0.
C21_ExactPnl ==
    Closing =>
        /\ close_analysis # None
        /\ close_analysis.current_value = RefCurrentValue
        /\ close_analysis.pnl_per_spread = RefPnl
        /\ close_analysis.total_pnl = RMul(RefPnl, RefLot)
        /\ close_analysis.pnl_percent = RefPercent

\* C21 amended: for a close with an entry price the reported current value,
\* P&L per spread, total P&L and percent are the values of the reference
\* formulas rounded to two decimals, the percent being 0 when the entry price
\* is 0; any other request gets no close analysis.
C21_RoundedPnl ==
    /\ Closing =>
          /\ close_analysis # None
          /\ close_analysis.entry_price = request.entry_price
          /\ close_analysis.current_value = Round2(RefCurrentValue)
          /\ close_analysis.pnl_per_spread = Round2(RefPnl)
          /\ close_analysis.total_pnl = Round2(RMul(RefPnl, RefLot))
          /\ close_analysis.pnl_percent = Round2(RefPercent)
          /\ request.entry_price = Rat(0, 1) =>
                 close_analysis.pnl_percent = Rat(0, 1)
    /\ (pc \in {"closed", "returned"} /\ tool = "none" /\ ~Closing) =>
          close_analysis = None

\* A bull put credit spread entered at 1.20 and closed at 0.80 - 0.70 = 0.10:
\* 1.10 a spread, 91.666...% reported as 91.67.
C21_Witness ==
    /\ Closing
    /\ request.spread_type = "bull_put_credit"
    /\ request.entry_price = Rat(120, 100)
    /\ request.contracts = 3
    /\ sell_leg.ask = Rat(80, 100)
    /\ buy_leg.bid = Rat(70, 100)
    /\ close_analysis.current_value = Rat(10, 100)
    /\ close_analysis.pnl_per_spread = Rat(110, 100)
    /\ close_analysis.total_pnl = Rat(330, 1)
    /\ close_analysis.pnl_percent = Rat(9167, 100)
    /\ RefPercent # Rat(9167, 100)

\* The text holds the JSON document, whatever is wrapped around it.
CarriesJson(text) == \E i \in 1..Len(text) : text[i] = JsonDoc

\* C29: whatever the LLM call did, the spread analysis returns, with the
\* metrics it computed from the request and the legs and the close analysis
\* unchanged; a text that is not JSON is carried as it came in ai_analysis,
\* JSON is carried parsed, and without an API key there is no ai_analysis.
C29_AiOptional ==
    (pc = "returned" /\ tool = "none") =>
        /\ ai_analysis # Raised("Exception")
        /\ spread_result = _analyze_spread_trade(request, buy_leg, sell_leg)
        /\ close_analysis =
               CloseAnalysisDict(request, buy_leg, sell_leg, RefIsCredit)
        /\ ~llm.key => ai_analysis = None
        /\ (llm.key /\ llm.outcome = Raised("Exception")) =>
               ai_analysis \notin {None, Raised("Exception")}
        /\ (llm.key /\ llm.outcome # Raised("Exception")) =>
               IF CarriesJson(llm.outcome.text)
               THEN ai_analysis = [items |-> <<>>]
               ELSE ai_analysis.raw_response = llm.outcome.text

\* The LLM answered with words behind a fence: the metrics are returned and
\* the words are carried as they came.
C29_Witness ==
    /\ pc = "returned"
    /\ tool = "none"
    /\ llm.key
    /\ llm.outcome = [text |-> <<FenceJson, "Hold the spread.">>]
    /\ ai_analysis.raw_response = <<FenceJson, "Hold the spread.">>
    /\ spread_result.max_profit = Rat(520, 1)

-----------------------------------------------------------------------------
(* The tools from the provider's data to their answer *)

SUMMARY_MIN_DTE == 1

DEFAULT_MIN_VOLUME == 75

\* OptionsDataError(symbol, detail) leaving the call.
OptionsDataError(detail) == [raised |-> "OptionsDataError", detail |-> detail]

\* A value returned, as opposed to an exception raised.
Ok(value) == [ok |-> value]

Tools ==
    {"options_risk_analysis", "options_summary", "_fetch_symbol_options_data",
     "_analyze_spread_trade"}

\* The tools that wrap every other exception into an OptionsDataError.
WrappingTools == {"options_risk_analysis", "options_summary"}

\* What the provider holds for a symbol: price is <<>> when neither info nor
\* the one-day history gives a price and <<p>> otherwise; options are the
\* expirations listed; calls and puts are the frames of the chain.
Market(price, options, calls_rows, puts_rows) ==
    [price |-> price, options |-> options, calls |-> calls_rows,
     puts |-> puts_rows]

\* fetch_ticker_data: the current price.
fetch_ticker_data(mkt) ==
    IF mkt.price = <<>> THEN OptionsDataError("No price data available")
    ELSE IF mkt.price[1] <= 0 THEN OptionsDataError("Invalid current price")
    ELSE Ok(mkt.price[1])

\* get_expirations handing on whatever the provider lists.
get_expirations_unchecked(mkt) == Ok(mkt.options)

get_expirations(mkt) ==
    IF mkt.options = <<>>
    THEN OptionsDataError("No options data available for this symbol")
    ELSE Ok(mkt.options)

\* (datetime.strptime(s, "%Y-%m-%d") - datetime.now()).days: the whole days
\* from now, clk seconds into today, to the midnight that starts the day of s.
DaysFromNow(s, tdy, clk) ==
    strptime_date(s) - tdy - (IF clk > 0 THEN 1 ELSE 0)

\* The exception as it leaves the tool t.
Surfaced(t, exc) ==
    IF t \in WrappingTools /\ exc.raised # "OptionsDataError"
    THEN OptionsDataError(exc.raised)
    ELSE exc

\* A row of a chain as the spread analysis reads it.
Contract(strike, bid, ask) == [strike |-> strike, bid |-> bid, ask |-> ask]

C95 == Contract(Rat(95, 1), Rat(6, 1), Rat(62, 10))

C100 == Contract(Rat(100, 1), Rat(2, 1), Rat(21, 10))

C105 == Contract(Rat(105, 1), Rat(70, 100), Rat(80, 100))

\* _find_contract taking the last of the rows at the smallest distance.
_find_contract_last(chain_df, strike, leg) ==
    IF chain_df = <<>>
    THEN OptionsDataError(IF leg = "buy" THEN "No options data for buy leg"
                          ELSE "No options data for sell leg")
    ELSE LET distance(i) == RAbs(RSub(chain_df[i].strike, strike))
             idx == CHOOSE i \in 1..Len(chain_df) :
                        /\ \A j \in 1..Len(chain_df) :
                               ~RLt(distance(j), distance(i))
                        /\ \A j \in (i + 1)..Len(chain_df) :
                               RLt(distance(i), distance(j))
         IN chain_df[idx]

\* _find_contract: idxmin is the first of the rows at the smallest distance.
_find_contract(chain_df, strike, leg) ==
    IF chain_df = <<>>
    THEN OptionsDataError(IF leg = "buy" THEN "No options data for buy leg"
                          ELSE "No options data for sell leg")
    ELSE LET distance(i) == RAbs(RSub(chain_df[i].strike, strike))
             idx == CHOOSE i \in 1..Len(chain_df) :
                        /\ \A j \in 1..Len(chain_df) :
                               ~RLt(distance(j), distance(i))
                        /\ \A j \in 1..(i - 1) :
                               RLt(distance(i), distance(j))
         IN chain_df[idx]

\* The frame the legs are looked up in: calls_df or puts_df by the spread
\* type, and for the multi-leg types calls_df for the buy leg and puts_df
\* for the sell leg.
LegChain(spread_type, cdf, pdf, leg) ==
    IF spread_type \in {"bull_call", "bear_call_credit"} THEN cdf
    ELSE IF spread_type \in {"bear_put", "bull_put_credit"} THEN pdf
    ELSE IF leg = "buy" THEN cdf ELSE pdf

\* spread_trade_endpoint: the HTTP status of the outcome.
spread_trade_endpoint(outcome) ==
    IF outcome = None THEN 200
    ELSE IF outcome.raised = "OptionsDataError" THEN 404
    ELSE IF outcome.raised = "ValueError" THEN 400
    ELSE 500

\* The price, the expirations and the clock drawn.
MarketPrices == {<<>>, <<0>>, <<1>>}

MarketOptions ==
    {<<>>, <<DateStr(7), DateStr(9)>>, <<DateStr(1), DateStr(8)>>, <<BadStr>>}

Clocks == {0, 1}

\* The frames drawn for the analysis tools, per side: none, or rows of which
\* some trade at least DEFAULT_MIN_VOLUME.
AnalysisCalls == {<<>>, LongChain(<<<<75, 3>>, <<100, 1>>>>)}

AnalysisPuts == {<<>>, LongChain(<<<<80, 2>>>>)}

\* The frames drawn for the spread analysis; the strikes need not be sorted.
SpreadCalls == {<<>>, <<C95, C105>>, <<C105, C100, C95>>}

SpreadPuts == {<<>>, <<C105, C95>>}

ToolRequestStrikes == {Rat(96, 1), Rat(100, 1)}

ToolRequestTypes == {"bull_call", "bull_put_credit", "iron_condor", "butterfly"}

InitTool ==
    /\ pc = "start"
    /\ tool \in Tools
    /\ clock \in Clocks
    /\ today = 0
    /\ \E price \in MarketPrices, options \in MarketOptions :
          IF tool = "_analyze_spread_trade"
          THEN \E c \in SpreadCalls, p \in SpreadPuts :
                   market = Market(price, options, c, p)
          ELSE \E c \in AnalysisCalls, p \in AnalysisPuts :
                   market = Market(price, options, c, p)
    /\ CASE tool = "options_risk_analysis" ->
                /\ requested \in {None, BadStr, DateStr(8)}
                /\ min_dte = DEFAULT_MIN_DTE
                /\ option_type \in OptionTypes
                /\ request = None
           [] tool = "_analyze_spread_trade" ->
                /\ requested \in {None, BadStr}
                /\ min_dte = 1
                /\ option_type = "both"
                /\ \E t \in ToolRequestTypes, b \in ToolRequestStrikes,
                      k \in ToolRequestStrikes :
                       request = SpreadTradeRequest(t, b, k, 1, "open", None)
           [] OTHER ->
                /\ requested = None
                /\ min_dte = SUMMARY_MIN_DTE
                /\ option_type = "both"
                /\ request = None
    /\ min_volume = DEFAULT_MIN_VOLUME
    /\ expirations = <<>>
    /\ selected = None
    /\ options_df = <<>>
    /\ current_price = 0
    /\ analysis = None
    /\ calls_df = <<>>
    /\ puts_df = <<>>
    /\ IdleRisk
    /\ buy_leg = None
    /\ sell_leg = None
    /\ spread_result = None
    /\ close_analysis = None
    /\ ai_analysis = None
    /\ llm = None
    /\ response = None
    /\ IdleVehicle
    /\ IdleCompare

\* The exception exc leaves the tool.
Fail(exc) ==
    /\ response' = Surfaced(tool, exc)
    /\ pc' = "raised"

\* ticker, current_price = fetch_ticker_data(symbol)
FetchTickerData ==
    /\ pc = "start"
    /\ LET r == fetch_ticker_data(market)
       IN IF "raised" \in DOMAIN r
          THEN Fail(r) /\ UNCHANGED current_price
          ELSE /\ current_price' = r.ok
               /\ pc' = "expirations"
               /\ UNCHANGED response
    /\ UNCHANGED <<options_df, min_volume, analysis>>
    /\ UNCHANGED <<tool, market, clock>>
    /\ UNCHANGED <<selVars, riskVars, requestVars, vehicleVars, spreadVars>>
    /\ UNCHANGED compareVars

\* expirations = get_expirations(ticker, symbol)
GetExpirations ==
    /\ pc = "expirations"
    /\ LET r == get_expirations(market)
       IN IF "raised" \in DOMAIN r
          THEN Fail(r) /\ UNCHANGED expirations
          ELSE /\ expirations' = r.ok
               /\ pc' = "select"
               /\ UNCHANGED response
    /\ UNCHANGED <<requested, min_dte, today, selected>>
    /\ UNCHANGED <<tool, market, clock>>
    /\ UNCHANGED <<chainVars, riskVars, requestVars, vehicleVars, spreadVars>>
    /\ UNCHANGED compareVars

\* selected_exp = select_expiration(expirations, requested, symbol, min_dte)
ToolSelectExpiration ==
    /\ pc = "select"
    /\ LET r == select_expiration(expirations, requested, min_dte, today)
       IN /\ selected' = r
          /\ IF r = Raised("IndexError")
             THEN Fail(r)
             ELSE pc' = "fetch" /\ UNCHANGED response
    /\ UNCHANGED <<expirations, requested, min_dte, today>>
    /\ UNCHANGED <<tool, market, clock>>
    /\ UNCHANGED <<chainVars, riskVars, requestVars, vehicleVars, spreadVars>>
    /\ UNCHANGED compareVars

\* calls_df, puts_df = fetch_option_chain(ticker, selected_exp), and in the
\* tools that report it dte = (strptime(selected_exp) - datetime.now()).days
FetchOptionChain ==
    /\ pc = "fetch"
    /\ calls_df' = market.calls
    /\ puts_df' = market.puts
    /\ IF tool = "_fetch_symbol_options_data"
       THEN pc' = "chains" /\ UNCHANGED <<dte, response>>
       ELSE IF StrptimeRaises(selected)
       THEN Fail(Raised("ValueError")) /\ UNCHANGED dte
       ELSE /\ dte' = DaysFromNow(selected, today, clock)
            /\ pc' = IF tool = "_analyze_spread_trade" THEN "legs" ELSE "chains"
            /\ UNCHANGED response
    /\ UNCHANGED <<calls, puts, pcr, warnings, opportunities, option_type>>
    /\ UNCHANGED <<tool, market, clock>>
    /\ UNCHANGED <<selVars, chainVars, vehicleVars, spreadVars, compareVars>>

\* OptionsRiskResponse(...).model_dump()
OptionsRiskResponse ==
    [current_price |-> current_price,
     expiration_date |-> selected,
     days_to_expiration |-> dte,
     available_expirations |-> expirations,
     calls |-> calls,
     puts |-> puts,
     put_call_ratio |-> pcr,
     risk_warnings |-> warnings,
     opportunities |-> opportunities,
     liquidity_threshold |-> min_volume]

\* options_risk_analysis returns its response.
Respond ==
    /\ pc = "done"
    /\ tool = "options_risk_analysis"
    /\ response' = OptionsRiskResponse
    /\ pc' = "returned"
    /\ UNCHANGED <<tool, market, clock>>
    /\ UNCHANGED <<selVars, chainVars, riskVars, requestVars, vehicleVars>>
    /\ UNCHANGED <<spreadVars, compareVars>>

\* The SymbolOptionsComparison of the analyses c and p.
SymbolOptionsComparison(symbol, price, c, p, r) ==
    [symbol |-> symbol,
     current_price |-> price,
     atm_iv |-> IF c # None THEN c.atm_iv ELSE None,
     put_call_ratio |-> IF r # None THEN r.volume ELSE None,
     total_volume |-> (IF c # None THEN c.total_volume ELSE 0)
                          + (IF p # None THEN p.total_volume ELSE 0),
     liquid_contracts |-> (IF c # None THEN c.liquid_contracts ELSE 0)
                              + (IF p # None THEN p.liquid_contracts ELSE 0)]

\* The fields of OptionsSummaryResponse taken from the chain; sentiment and
\* risk_level are left out.
OptionsSummaryResponse(price, sel, days, c, p, r) ==
    [current_price |-> price,
     nearest_expiration |-> sel,
     days_to_expiration |-> days,
     atm_call_iv |-> IF c # None THEN c.atm_iv ELSE None,
     atm_put_iv |-> IF p # None THEN p.atm_iv ELSE None,
     put_call_ratio_volume |-> IF r # None THEN r.volume ELSE None,
     total_call_volume |-> IF c # None THEN c.total_volume ELSE 0,
     total_put_volume |-> IF p # None THEN p.total_volume ELSE 0]

\* pcr = _compute_pcr(...) and the answer of options_summary and of
\* _fetch_symbol_options_data.
Summarize ==
    /\ pc = "analyzed"
    /\ tool \in {"options_summary", "_fetch_symbol_options_data"}
    /\ LET r == _compute_pcr(calls, puts)
       IN /\ pcr' = r
          /\ response' =
                 IF tool = "options_summary"
                 THEN OptionsSummaryResponse(current_price, selected, dte,
                                             calls, puts, r)
                 ELSE SymbolOptionsComparison("SYM", current_price, calls,
                                              puts, r)
    /\ pc' = "returned"
    /\ UNCHANGED <<calls, puts, dte, warnings, opportunities>>
    /\ UNCHANGED <<tool, market, clock>>
    /\ UNCHANGED <<selVars, chainVars, requestVars, vehicleVars, spreadVars>>
    /\ UNCHANGED compareVars

\* The spread type is checked and the two legs are looked up.
FindContracts ==
    /\ pc = "legs"
    /\ LET spread_type == Lower(request.spread_type)
           buy == _find_contract(
                      LegChain(spread_type, calls_df, puts_df, "buy"),
                      request.buy_strike, "buy")
           sell == _find_contract(
                       LegChain(spread_type, calls_df, puts_df, "sell"),
                       request.sell_strike, "sell")
       IN IF spread_type \notin SpreadTypes
          THEN Fail(Raised("ValueError")) /\ UNCHANGED <<buy_leg, sell_leg>>
          ELSE IF "raised" \in DOMAIN buy
          THEN Fail(buy) /\ UNCHANGED <<buy_leg, sell_leg>>
          ELSE IF "raised" \in DOMAIN sell
          THEN /\ Fail(sell)
               /\ buy_leg' = buy
               /\ UNCHANGED sell_leg
          ELSE /\ buy_leg' = buy
               /\ sell_leg' = sell
               /\ pc' = "call"
               /\ UNCHANGED response
    /\ UNCHANGED <<request, spread_result, close_analysis, ai_analysis, llm>>
    /\ UNCHANGED <<tool, market, clock>>
    /\ UNCHANGED <<selVars, chainVars, riskVars, requestVars, vehicleVars>>
    /\ UNCHANGED compareVars

NextTool ==
    \/ FetchTickerData
    \/ GetExpirations
    \/ ToolSelectExpiration
    \/ FetchOptionChain
    \/ AnalyzeChains
    \/ AssessRisk
    \/ Respond
    \/ Summarize
    \/ FindContracts
    \/ SpreadMetrics
    \/ CloseAnalysis
    \/ AiAnalysis

SpecTool == InitTool /\ [][NextTool]_vars

\* The row leg is one of chain_df at the smallest distance from strike, and
\* the first such.
NearestFirst(leg, chain_df, strike) ==
    \E i \in 1..Len(chain_df) :
        /\ chain_df[i] = leg
        /\ \A j \in 1..Len(chain_df) :
               ~RLt(RAbs(RSub(chain_df[j].strike, strike)),
                    RAbs(RSub(leg.strike, strike)))
        /\ \A j \in 1..(i - 1) :
               RAbs(RSub(chain_df[j].strike, strike))
                   # RAbs(RSub(leg.strike, strike))

\* The frame searched for the buy leg, and for the sell leg.
BuyChain == LegChain(Lower(request.spread_type), calls_df, puts_df, "buy")

SellChain == LegChain(Lower(request.spread_type), calls_df, puts_df, "sell")

NoLegData ==
    {OptionsDataError("No options data for buy leg"),
     OptionsDataError("No options data for sell leg")}

\* C22: once the legs are found each is the first row of its frame at the
\* smallest distance from the requested strike; looking the legs up in an
\* empty frame ends the analysis with an OptionsDataError, and no spread
\* metrics exist then.
C22_FindContract ==
    /\ []((tool = "_analyze_spread_trade"
              /\ pc \in {"call", "done", "closed", "returned"}) =>
             /\ NearestFirst(buy_leg, BuyChain, request.buy_strike)
             /\ NearestFirst(sell_leg, SellChain, request.sell_strike))
    /\ []((tool = "_analyze_spread_trade" /\ response \in NoLegData) =>
             /\ pc = "raised"
             /\ spread_result = None
             /\ BuyChain = <<>> \/ SellChain = <<>>)
    /\ [][(/\ pc = "legs"
           /\ Lower(request.spread_type) \in SpreadTypes
           /\ BuyChain = <<>> \/ SellChain = <<>>) =>
              response' \in NoLegData]_vars

\* A bull call spread asked at 100/96 on calls listed 95, 105: 95 and 105 are
\* both 5 away from 100 and the first, 95, is the buy leg.
C22_Witness ==
    /\ tool = "_analyze_spread_trade"
    /\ pc = "done"
    /\ request.spread_type = "bull_call"
    /\ request.buy_strike = Rat(100, 1)
    /\ request.sell_strike = Rat(96, 1)
    /\ calls_df = <<C95, C105>>
    /\ buy_leg = C95
    /\ sell_leg = C95
    /\ spread_result # None

\* The provider listed no expiration and the tool failed on it.
NoExpirations ==
    response = OptionsDataError("No options data available for this symbol")

\* C26: in each of the four tools select_expiration is only called with a
\* non-empty sequence and never fails on an empty one; when the price was
\* fetched and the provider lists no expiration the tool ends with the data
\* error of get_expirations,
\* and no expiration is selected, no chain fetched and nothing analysed,
\* then or later.
C26_ExpirationsFirst ==
    /\ [](tool \in Tools =>
             /\ pc = "select" => expirations # <<>>
             /\ selected # Raised("IndexError")
             /\ (/\ pc \notin {"start", "expirations"}
                 /\ current_price > 0
                 /\ market.options = <<>>) => NoExpirations
             /\ NoExpirations =>
                    /\ pc = "raised"
                    /\ market.options = <<>>
                    /\ selected = None
                    /\ calls_df = <<>> /\ puts_df = <<>>
                    /\ calls = None /\ puts = None /\ pcr = None
                    /\ buy_leg = None /\ sell_leg = None
                    /\ spread_result = None)
    /\ [][NoExpirations => UNCHANGED vars]_vars

\* The spread analysis of a symbol with a price and no expiration listed.
C26_Witness ==
    /\ tool = "_analyze_spread_trade"
    /\ pc = "raised"
    /\ current_price = 1
    /\ market.options = <<>>
    /\ market.calls # <<>>
    /\ NoExpirations
    /\ spread_trade_endpoint(response) = 404

\* The tool has returned or raised.
Ended == pc \in {"raised", "returned"}

\* C23 as stated: a spread analysis asked with an unknown spread type ends
\* with a ValueError, answered with HTTP 400, whatever the provider holds,
\* and computes no spread metrics.
C23_UnknownSpreadType ==
    (/\ tool = "_analyze_spread_trade"
     /\ Lower(request.spread_type) \notin SpreadTypes
     /\ Ended) =>
        /\ response = Raised("ValueError")
        /\ spread_trade_endpoint(response) = 400
        /\ spread_result = None

\* A butterfly asked on a symbol without a price: the data error of
\* fetch_ticker_data is answered with 404.
C23_Witness ==
    /\ tool = "_analyze_spread_trade"
    /\ request.spread_type = "butterfly"
    /\ market.price = <<>>
    /\ pc = "raised"
    /\ response = OptionsDataError("No price data available")
    /\ spread_trade_endpoint(response) = 404
    /\ spread_result = None

\* C24 as stated: options_risk_analysis asked for an expiration that is not
\* in the YYYY-MM-DD format selects no expiration in its place and returns
\* no response.
C24_MalformedExpiration ==
    (tool = "options_risk_analysis" /\ requested = BadStr) =>
        /\ selected = None
        /\ pc # "returned"

\* The malformed request answered with the analysis of the expiration the
\* scan selected.
C24_Witness ==
    /\ tool = "options_risk_analysis"
    /\ requested = BadStr
    /\ market.options = <<DateStr(7), DateStr(9)>>
    /\ pc = "returned"
    /\ response.expiration_date = DateStr(7)
    /\ response.calls # None

\* The chain fetched is empty on every side asked for.
NoRequestedSide ==
    /\ option_type \in {"calls", "both"} => market.calls = <<>>
    /\ option_type \in {"puts", "both"} => market.puts = <<>>

\* C25 as stated: options_risk_analysis ends with an OptionsDataError, and
\* not with a response, when the price is missing or not positive, when no
\* expiration is listed, or when the chain of every side asked for is empty.
C25_DataUnavailable ==
    (/\ tool = "options_risk_analysis"
     /\ Ended
     /\ \/ market.price = <<>>
        \/ market.price[1] <= 0
        \/ market.options = <<>>
        \/ NoRequestedSide) =>
        /\ pc = "raised"
        /\ response.raised = "OptionsDataError"

\* Both sides asked for and both frames empty: a response without analyses
\* and without a put/call ratio.
C25_Witness ==
    /\ tool = "options_risk_analysis"
    /\ option_type = "both"
    /\ market.calls = <<>>
    /\ market.puts = <<>>
    /\ pc = "returned"
    /\ response.calls = None
    /\ response.puts = None
    /\ response.put_call_ratio = None
    /\ response.risk_warnings = <<>>

\* C30 as stated: the days_to_expiration options_risk_analysis reports is
\* the difference in days between the selected date and today's date, and
\* an expiration the scan selected at least DEFAULT_MIN_DTE days ahead
\* comes without the short-expiration warning.
C30_DayGranularDte ==
    (tool = "options_risk_analysis" /\ pc = "returned") =>
        /\ response.days_to_expiration = strptime_date(selected) - today
        /\ (/\ ~(Truthy(requested) /\ InTuple(requested, expirations))
            /\ min_dte = DEFAULT_MIN_DTE
            /\ strptime_date(selected) - today >= DEFAULT_MIN_DTE) =>
               ~HasMsg(response.risk_warnings, "dte", "short")

\* After midnight the expiration seven days ahead, selected under the floor
\* of 7, is reported 6 days away with the short-expiration warning.
C30_Witness ==
    /\ tool = "options_risk_analysis"
    /\ pc = "returned"
    /\ clock > 0
    /\ requested = None
    /\ min_dte = DEFAULT_MIN_DTE
    /\ selected = DateStr(7)
    /\ today = 0
    /\ response.days_to_expiration = 6
    /\ HasMsg(response.risk_warnings, "dte", "short")

-----------------------------------------------------------------------------
(* options_compare *)

\* Most symbols compared in one call.
MaxSymbols == 3

\* _fetch_symbol_options_data on the provider's data mkt, atm_c and atm_p
\* being the positions argsort puts first in the liquid rows of each side.
_fetch_symbol_options_data(symbol, mkt, tdy, atm_c, atm_p) ==
    LET price == fetch_ticker_data(mkt)
        exps == get_expirations(mkt)
    IN IF "raised" \in DOMAIN price THEN price
       ELSE IF "raised" \in DOMAIN exps THEN exps
       ELSE LET sel == select_expiration(exps.ok, None, SUMMARY_MIN_DTE, tdy)
                c == analyze_chain(mkt.calls, price.ok, DEFAULT_MIN_VOLUME,
                                   atm_c)
                p == analyze_chain(mkt.puts, price.ok, DEFAULT_MIN_VOLUME,
                                   atm_p)
            IN IF sel = Raised("IndexError") THEN sel
               ELSE SymbolOptionsComparison(symbol, price.ok, c, p,
                                            _compute_pcr(c, p))

\* The positions argsort may put first in the liquid rows of df.
AtmPositions(df, price) ==
    LET liquid == LiquidOptions(df, DEFAULT_MIN_VOLUME)
    IN IF liquid = <<>> \/ price = <<>> THEN {0}
       ELSE ArgsortHead(liquid, price[1])

\* The key _sort_comparisons sorts on.
SortKey(c, by) ==
    CASE by = "pcr" -> OrZero(c.put_call_ratio)
      [] by = "volume" -> Rat(c.total_volume, 1)
      [] by = "liquidity" -> Rat(c.liquid_contracts, 1)
      [] OTHER -> OrZero(c.atm_iv)

\* list.sort(key=..., reverse=True) is stable: c goes behind the entries of
\* the sorted list whose key is not smaller.
RECURSIVE InsertDescending(_, _, _)
InsertDescending(c, sorted, by) ==
    IF sorted = <<>> THEN <<c>>
    ELSE IF RLt(SortKey(Head(sorted), by), SortKey(c, by))
    THEN <<c>> \o sorted
    ELSE <<Head(sorted)>> \o InsertDescending(c, Tail(sorted), by)

RECURSIVE SortDescending(_, _, _)
SortDescending(list, n, by) ==
    IF n = 0 THEN <<>>
    ELSE InsertDescending(list[n], SortDescending(list, n - 1, by), by)

\* _sort_comparisons: the list sorted and the description of the ranking.
_sort_comparisons(list, by) ==
    [symbols |-> SortDescending(list, Len(list), by),
     ranked_by |->
         CASE by = "iv" -> "Highest ATM implied volatility first"
           [] by = "pcr" -> "Highest Put/Call ratio first"
           [] by = "volume" -> "Highest total options volume first"
           [] by = "liquidity" -> "Most liquid contracts first"
           [] OTHER -> "Highest ATM implied volatility first (default)"]

\* The results that are not exceptions, in order.
RECURSIVE Succeeded(_)
Succeeded(results) ==
    IF results = <<>> THEN <<>>
    ELSE IF "raised" \in DOMAIN Head(results)
    THEN Succeeded(Tail(results))
    ELSE <<Head(results)>> \o Succeeded(Tail(results))

\* errors: one entry for each result that is an exception, in order.
RECURSIVE Failed(_, _)
Failed(syms, results) ==
    IF results = <<>> THEN <<>>
    ELSE IF "raised" \in DOMAIN Head(results)
    THEN <<[symbol |-> Head(syms), error |-> Head(results)]>>
             \o Failed(Tail(syms), Tail(results))
    ELSE Failed(Tail(syms), Tail(results))

\* options_compare on a gather that lets the first exception out.
CompareResponse_first_exception(syms, results, by) ==
    IF \E i \in 1..Len(results) : "raised" \in DOMAIN results[i]
    THEN results[CHOOSE i \in 1..Len(results) :
                     /\ "raised" \in DOMAIN results[i]
                     /\ \A j \in 1..(i - 1) : "raised" \notin DOMAIN results[j]]
    ELSE IF results = <<>>
    THEN OptionsDataError("No options data for any symbol")
    ELSE LET ranked == _sort_comparisons(results, by)
         IN [metric |-> by, symbols |-> ranked.symbols,
             ranked_by |-> ranked.ranked_by]

\* What options_compare answers on the results gathered: the data error
\* when no symbol succeeded, else the MultiSymbolOptionsResponse.
CompareResponse(syms, results, by) ==
    IF Succeeded(results) = <<>>
    THEN OptionsDataError("No options data for any symbol")
    ELSE LET ranked == _sort_comparisons(Succeeded(results), by)
         IN [metric |-> by, symbols |-> ranked.symbols,
             ranked_by |-> ranked.ranked_by]

SymbolNames == <<"AAA", "BBB", "CCC", "DDD">>

\* What the provider holds for one symbol: no price, no expiration, a chain
\* with both sides, a chain with calls only.
CompareMarkets ==
    {Market(<<>>, <<DateStr(7)>>, <<>>, <<>>),
     Market(<<1>>, <<>>, <<>>, <<>>),
     Market(<<1>>, <<DateStr(7)>>, LongChain(<<<<75, 3>>, <<100, 1>>>>),
            LongChain(<<<<80, 2>>>>)),
     Market(<<1>>, <<DateStr(1), DateStr(8)>>, LongChain(<<<<200, 5>>>>), <<>>)}

Metrics == {"iv", "pcr", "volume", "liquidity", "oi"}

InitCompare ==
    /\ pc = "gather"
    /\ tool = "options_compare"
    /\ \E n \in 0..MaxSymbols :
          /\ symbols = SubSeq(SymbolNames, 1, n)
          /\ market \in [1..n -> CompareMarkets]
          /\ tasks = [i \in 1..n |-> None]
    /\ metric \in Metrics
    /\ comparisons = <<>>
    /\ errors = <<>>
    /\ response = None
    /\ clock = 0
    /\ IdleSel
    /\ IdleChain
    /\ IdleRisk
    /\ IdleRequest
    /\ IdleVehicle
    /\ IdleSpread

\* One of the tasks gather waits for runs to its result or its exception.
RunTask ==
    /\ pc = "gather"
    /\ \E i \in 1..Len(tasks) :
          /\ tasks[i] = None
          /\ \E atm_c \in AtmPositions(market[i].calls, market[i].price),
                atm_p \in AtmPositions(market[i].puts, market[i].price) :
                 tasks' = [tasks EXCEPT ![i] =
                              _fetch_symbol_options_data(
                                  symbols[i], market[i], today, atm_c, atm_p)]
    /\ UNCHANGED <<pc, symbols, metric, comparisons, errors>>
    /\ UNCHANGED <<selVars, chainVars, riskVars, requestVars, vehicleVars>>
    /\ UNCHANGED <<spreadVars, orchVars>>

\* gather has every result: the loop over zip(symbols, results), then the
\* data error or the ranked response.
Collect ==
    /\ pc = "gather"
    /\ \A i \in 1..Len(tasks) : tasks[i] # None
    /\ LET r == CompareResponse(symbols, tasks, metric)
       IN /\ response' = r
          /\ pc' = IF "raised" \in DOMAIN r THEN "raised" ELSE "returned"
          /\ comparisons' = IF "raised" \in DOMAIN r THEN <<>> ELSE r.symbols
    /\ errors' = Failed(symbols, tasks)
    /\ UNCHANGED <<symbols, metric, tasks>>
    /\ UNCHANGED <<tool, market, clock>>
    /\ UNCHANGED <<selVars, chainVars, riskVars, requestVars, vehicleVars>>
    /\ UNCHANGED spreadVars

NextCompare == RunTask \/ Collect

SpecCompare == InitCompare /\ [][NextCompare]_vars

\* The provider has a price and an expiration for the i-th symbol.
Good(i) ==
    /\ market[i].price # <<>>
    /\ market[i].price[1] > 0
    /\ market[i].options # <<>>

\* The entry is the comparison of the i-th symbol's own price and chain.
OwnData(entry, i) ==
    LET c == market[i].calls
        p == market[i].puts
    IN /\ entry.symbol = symbols[i]
       /\ entry.current_price = market[i].price[1]
       /\ entry.total_volume = SumCol(c, "volume") + SumCol(p, "volume")
       /\ entry.liquid_contracts =
              Len(LiquidOptions(c, DEFAULT_MIN_VOLUME))
                  + Len(LiquidOptions(p, DEFAULT_MIN_VOLUME))
       /\ entry.put_call_ratio =
              IF c # <<>> /\ p # <<>> /\ SumCol(c, "volume") > 0
              THEN Rat(SumCol(p, "volume"), SumCol(c, "volume"))
              ELSE None

\* C27: whatever the order the tasks end in, each task's result is an
\* exception exactly for a symbol without price or expirations; the call
\* ends after every task has ended; with at least one symbol succeeded it
\* returns exactly one entry for each succeeded symbol, made of that symbol's
\* own data, and it raises the data error only when no symbol succeeded.
C27_FanOut ==
    tool = "options_compare" =>
        /\ \A i \in 1..Len(tasks) :
               tasks[i] # None =>
                   (("raised" \in DOMAIN tasks[i]) <=> ~Good(i))
        /\ Ended =>
               /\ \A i \in 1..Len(tasks) : tasks[i] # None
               /\ IF \E i \in 1..Len(symbols) : Good(i)
                  THEN /\ pc = "returned"
                       /\ Len(response.symbols) =
                              Cardinality({i \in 1..Len(symbols) : Good(i)})
                       /\ \A i \in 1..Len(symbols) :
                              Good(i) =>
                                  \E k \in 1..Len(response.symbols) :
                                      OwnData(response.symbols[k], i)
                  ELSE /\ pc = "raised"
                       /\ response.raised = "OptionsDataError"

\* Three symbols, the first without a price: the two others are returned.
C27_Witness ==
    /\ tool = "options_compare"
    /\ pc = "returned"
    /\ Len(symbols) = 3
    /\ ~Good(1)
    /\ Good(2)
    /\ Good(3)
    /\ Len(response.symbols) = 2
    /\ Len(errors) = 1

\* C28 as stated: the result of options_compare names every symbol asked
\* for, a symbol whose fetch failed included.
C28_PerSymbolOutcome ==
    (tool = "options_compare" /\ pc = "returned") =>
        \A i \in 1..Len(symbols) :
            ~Good(i) =>
                \E k \in 1..Len(response.symbols) :
                    response.symbols[k].symbol = symbols[i]

\* AAA has no price and BBB has a chain: the response holds BBB alone, and
\* the failure of AAA is in the errors list that is not returned.
C28_Witness ==
    /\ tool = "options_compare"
    /\ pc = "returned"
    /\ symbols = <<"AAA", "BBB">>
    /\ ~Good(1)
    /\ Len(response.symbols) = 1
    /\ response.symbols[1].symbol = "BBB"
    /\ errors = <<[symbol |-> "AAA", error |-> tasks[1]]>>
    /\ DOMAIN response = {"metric", "symbols", "ranked_by"}

====
